---- MODULE Spec2Model ----
(***************************************************************************)
(* Verification model of the bookmark-assistant extension: the search core *)
(* (src/search.js: levenshteinDistance, tag filter, two-pass scorer,       *)
(* history enrichment, deduplication) and its caller in the popup          *)
(* (executeSearch, the debounced input listener, the history toggle, the   *)
(* selection of a result).                                                 *)
(*                                                                         *)
(* Specifications: SpecLev and SpecTag apply levenshteinDistance and the   *)
(* tag filter to drawn arguments; Spec, SpecPopup, SpecWeights,            *)
(* SpecScoring, SpecCaps and SpecSelect run the popup over different       *)
(* profiles and user actions.                                              *)
(*                                                                         *)
(* Strings are sequences of one-character strings.  Scores and weights are *)
(* fixed-point numbers in units of 1/Scale.  The clock counts hours.       *)
(***************************************************************************)
EXTENDS Integers, Sequences, FiniteSets, TLC

VARIABLES
    levS1, levS2, levOut,           \* levenshteinDistance: arguments, result
    tfQuery, tfToken, tfTags,       \* tag filter: query, added #tag token, tag table
    tfBase, tfExt,                  \* tag filter: survivors for tfQuery / tfQuery + tfToken
    allBookmarks,                   \* popup: the bookmark list (cachedBookmarks)
    bookmarkTags,                   \* popup: url -> tags
    domainScores,                   \* popup: hostname -> selection count
    visitCountCache,                \* popup: url -> {visitCount, lastVisit, timestamp}
    storedWeights,                  \* chrome.storage.sync: the weights item
    hostVisits,                     \* chrome.history: url -> visit times, newest first
    now,                            \* Date.now(), in hours
    searchInput,                    \* searchInput.value
    debounceTimer,                  \* whether the 150 ms timer is armed
    startupPending,                 \* whether initialize().then(executeSearch) is due
    inv,                            \* the executeSearch/customSearch invocations
    issued,                         \* number of invocations started
    running,                        \* the invocation running synchronous code, or 0
    displayed,                      \* what displayResults last rendered
    searchMode,                     \* popup: 'bookmarks' or 'history'
    selection,                      \* the last call of trackDomainSelection
    storedDomainScores,             \* chrome.storage.local: the domainScores item
    storedBookmarkTags,             \* chrome.storage.local: the bookmarkTags item
    importFile,                     \* options page: the backup file being imported
    selectedSinceReset,             \* history: hostname -> selections since the last reset
    timers,                         \* popup: ages in ms of the pending timeouts, newest last
    sinceInput,                     \* ms since the last input event
    burst,                          \* history: input events since the last timer search
    bookmarkTree,                   \* chrome.bookmarks: id -> node
    cachedBookmarks,                \* chrome.storage.local: the cachedBookmarks item
    handlers,                       \* background: the event handlers in flight
    handled,                        \* background: number of bookmark events dispatched
    popupWindowId,                  \* background: id of the popup window, 0 for null
    openWindows,                    \* chrome.windows: ids of the popup windows that exist
    winCalls,                       \* background: the asynchronous calls in flight
    commands,                       \* history: open_popup_window commands received
    openedTabs,                     \* chrome.tabs: urls handed to chrome.tabs.create
    popupOpen,                      \* popup: whether the page is open
    importJob,                      \* options page: the import in progress
    optionsStatus                   \* options page: the status message on display

popupVars == <<allBookmarks, bookmarkTags, domainScores, visitCountCache,
               storedWeights, hostVisits, now, searchInput, debounceTimer,
               startupPending, inv, issued, running, displayed,
               searchMode, selection>>

uiVars == <<searchMode, selection>>

storeVars == <<storedDomainScores, storedBookmarkTags, importFile, selectedSinceReset>>
timeVars == <<timers, sinceInput, burst>>
bgVars == <<bookmarkTree, cachedBookmarks, handlers, handled>>
winVars == <<popupWindowId, openWindows, winCalls, commands>>
navVars == <<openedTabs, popupOpen>>
optVars == <<importJob, optionsStatus>>
moreVars == <<winVars, navVars, optVars>>
auxVars == <<storeVars, timeVars, bgVars, moreVars>>

levVars == <<levS1, levS2, levOut>>
tagVars == <<tfQuery, tfToken, tfTags, tfBase, tfExt>>
vars == <<levVars, tagVars, popupVars, auxVars>>

----------------------------------------------------------------------------
(* Bounds of the model *)

MaxLevLen == 3
MaxSearchRuns == 2
MaxSelections == 2

----------------------------------------------------------------------------
(* Strings *)

UpperChars == <<"A", "B", "D", "G", "H", "P", "W">>
LowerChars == <<"a", "b", "d", "g", "h", "p", "w">>

\* String.prototype.toLowerCase, one character
LowerChar(c) ==
    IF \E i \in 1..Len(UpperChars) : UpperChars[i] = c
    THEN LowerChars[CHOOSE i \in 1..Len(UpperChars) : UpperChars[i] = c]
    ELSE c

\* String.prototype.toLowerCase
toLowerCase(s) == [i \in 1..Len(s) |-> LowerChar(s[i])]

Min2(a, b) == IF a <= b THEN a ELSE b

----------------------------------------------------------------------------
(* levenshteinDistance (src/search.js 5-31): one rolling row `costs`,      *)
(* indexed 0..s2.length, updated in place for every character of s1.       *)

\* the inner loop `for j` of row i > 0, from column j on; returns the row
\* after `costs[s2.length] = lastValue`
RECURSIVE LevInnerNoStore(_, _, _, _, _, _)
LevInnerNoStore(s1, s2, i, j, costs, lastValue) ==
    IF j > Len(s2) THEN costs
    ELSE LET diag == costs[j - 1]
             newValue == IF s1[i] /= s2[j]
                         THEN Min2(Min2(diag, lastValue), costs[j]) + 1
                         ELSE diag
         IN LevInnerNoStore(s1, s2, i, j + 1,
                            [costs EXCEPT ![j - 1] = lastValue], newValue)

RECURSIVE LevInner(_, _, _, _, _, _)
LevInner(s1, s2, i, j, costs, lastValue) ==
    IF j > Len(s2) THEN [costs EXCEPT ![Len(s2)] = lastValue]
    ELSE LET diag == costs[j - 1]
             newValue == IF s1[i] /= s2[j]
                         THEN Min2(Min2(diag, lastValue), costs[j]) + 1
                         ELSE diag
         IN LevInner(s1, s2, i, j + 1,
                     [costs EXCEPT ![j - 1] = lastValue], newValue)

\* the outer loop `for i`, from row i on (row 0 is costs[j] = j)
RECURSIVE LevRowsNoStore(_, _, _, _)
LevRowsNoStore(s1, s2, i, costs) ==
    IF i > Len(s1) THEN costs
    ELSE LevRowsNoStore(s1, s2, i + 1, LevInnerNoStore(s1, s2, i, 1, costs, i))

RECURSIVE LevRows(_, _, _, _)
LevRows(s1, s2, i, costs) ==
    IF i > Len(s1) THEN costs
    ELSE LevRows(s1, s2, i + 1, LevInner(s1, s2, i, 1, costs, i))

\* mutant: the comparison is made on the arguments as given (no toLowerCase)
levenshteinDistance_CaseSensitive(s1, s2) ==
    LevRows(s1, s2, 1, [j \in 0..Len(s2) |-> j])[Len(s2)]

\* mutant: the last cell of a row is never stored (lines 26-28 dropped)
levenshteinDistance_NoLastStore(s1, s2) ==
    LevRowsNoStore(toLowerCase(s1), toLowerCase(s2), 1,
                   [j \in 0..Len(s2) |-> j])[Len(s2)]

levenshteinDistance(s1, s2) ==
    LET a == toLowerCase(s1)
        b == toLowerCase(s2)
    IN LevRows(a, b, 1, [j \in 0..Len(b) |-> j])[Len(b)]

----------------------------------------------------------------------------
(* String operations used by the search *)

\* String.prototype.includes
Includes(s, sub) ==
    \E i \in 0..(Len(s) - Len(sub)) : SubSeq(s, i + 1, i + Len(sub)) = sub

\* String.prototype.startsWith
StartsWith(s, prefix) ==
    /\ Len(prefix) <= Len(s)
    /\ SubSeq(s, 1, Len(prefix)) = prefix

\* String.prototype.substring(0, n)
Prefix(s, n) == SubSeq(s, 1, Min2(n, Len(s)))

\* String.prototype.split(sep) for a one-character separator: every piece,
\* the empty ones included
RECURSIVE SplitFrom(_, _, _, _, _)
SplitFrom(s, sep, i, cur, acc) ==
    IF i > Len(s) THEN Append(acc, cur)
    ELSE IF s[i] = sep THEN SplitFrom(s, sep, i + 1, <<>>, Append(acc, cur))
    ELSE SplitFrom(s, sep, i + 1, Append(cur, s[i]), acc)

Split(s, sep) == SplitFrom(s, sep, 1, <<>>, <<>>)

\* Array.prototype.join(sep)
RECURSIVE Join(_, _)
Join(words, sep) ==
    IF Len(words) = 0 THEN <<>>
    ELSE IF Len(words) = 1 THEN words[1]
    ELSE words[1] \o <<sep>> \o Join(Tail(words), sep)

\* String.prototype.trim (the only white space of the model is the blank)
RECURSIVE Trim(_)
Trim(s) ==
    IF Len(s) = 0 THEN s
    ELSE IF s[1] = " " THEN Trim(Tail(s))
    ELSE IF s[Len(s)] = " " THEN Trim(SubSeq(s, 1, Len(s) - 1))
    ELSE s

NonEmpty(w) == Len(w) > 0
IsTagToken(w) == StartsWith(w, <<"#">>)
IsTermToken(w) == ~IsTagToken(w)

----------------------------------------------------------------------------
(* customSearch, step 1 (src/search.js 74-79): the query parser *)

allQueryWordsOf(query) == SelectSeq(Split(toLowerCase(query), " "), NonEmpty)

tagFiltersOf(query) ==
    LET tokens == SelectSeq(allQueryWordsOf(query), IsTagToken)
    IN [i \in 1..Len(tokens) |-> Tail(tokens[i])]

queryWordsOf(query) == SelectSeq(allQueryWordsOf(query), IsTermToken)

----------------------------------------------------------------------------
(* customSearch, step 2 (src/search.js 81-106): the tag filter *)

\* bookmarkTags[url] || []
TagsOf(tagTable, url) ==
    IF url \in DOMAIN tagTable THEN tagTable[url] ELSE <<>>

\* mutant: the lenient threshold already applies to tags of 5 characters
TagThreshold_FiveIsLong(tag) == IF Len(tag) >= 5 THEN 2 ELSE 1

\* const threshold = tag.length > 5 ? 2 : 1
TagThreshold(tag) == IF Len(tag) > 5 THEN 2 ELSE 1

\* the callback of tags.some
TagMatches(tag, filterTag) ==
    \/ Includes(tag, filterTag)
    \/ levenshteinDistance(tag, filterTag) <= TagThreshold(tag)

\* mutant: one matching filter tag is enough (tagFilters.some)
PassesTagFilter_AnyFilter(tags, tagFilters) ==
    /\ Len(tags) /= 0
    /\ \E f \in 1..Len(tagFilters) :
           \E t \in 1..Len(tags) : TagMatches(tags[t], tagFilters[f])

\* the callback of allBookmarks.filter
PassesTagFilter(tags, tagFilters) ==
    /\ Len(tags) /= 0
    /\ \A f \in 1..Len(tagFilters) :
           \E t \in 1..Len(tags) : TagMatches(tags[t], tagFilters[f])

workingBookmarksOf(allBkm, tagTable, tagFilters) ==
    IF Len(tagFilters) > 0
    THEN LET Keep(b) == PassesTagFilter(TagsOf(tagTable, b.url), tagFilters)
         IN SelectSeq(allBkm, Keep)
    ELSE allBkm

----------------------------------------------------------------------------
(* Numbers.  A score or weight x is held as the integer x * Scale; the     *)
(* natural logarithm is tabulated to the same precision.                   *)

Scale == 1000

\* Math.log(n) for n = 1..12, times Scale
LnTable == <<0, 693, 1099, 1386, 1609, 1792, 1946, 2079, 2197, 2303, 2398, 2485>>

\* Math.log(n + 1), Math.log1p(n)
Log1p(n) == LnTable[n + 1]

Max2(a, b) == IF a >= b THEN a ELSE b

\* A property the weights object lacks reads as undefined; in the sums and
\* products of customSearch undefined turns the value into NaN, and
\* `NaN > 0` and `undefined > 0` are both false.  One value stands for both.
NaN == 0 - Scale * Scale
IsNumber(x) == x /= NaN

\* what reading a property the object lacks yields
Undefined == NaN

\* a + b and a * b on JS numbers
Plus(a, b) == IF a = NaN \/ b = NaN THEN NaN ELSE a + b
Times(a, b) == IF a = NaN \/ b = NaN THEN NaN ELSE (a * b) \div Scale

\* the defaults of chrome.storage.sync.get (src/search.js 68-71)
DefaultWeights ==
    [titleMatch |-> 10 * Scale, startsWithBonus |-> 15 * Scale,
     tagMatch |-> 20 * Scale, urlMatch |-> 3 * Scale,
     allWordsBonus |-> (3 * Scale) \div 2, visitCount |-> 5 * Scale,
     recency |-> 10 * Scale]

CACHE_TTL == 24     \* hours
DayHours == 24      \* 1000 * 60 * 60 * 24 ms
TopK == 25

----------------------------------------------------------------------------
(* customSearch, Pass 1 (src/search.js 108-169): the lexical score of one  *)
(* bookmark.                                                               *)

\* mutant: the word has to be a whole word of the title
TitleIncludes_WholeWord(lowerCaseTitle, word) ==
    \E t \in 1..Len(Split(lowerCaseTitle, " ")) : Split(lowerCaseTitle, " ")[t] = word

\* lowerCaseTitle.includes(word) (line 127)
TitleIncludes(lowerCaseTitle, word) == Includes(lowerCaseTitle, word)

\* the body of `for (const word of queryWords)`: what the word adds to the
\* score and whether it matched
WordScore(word, lowerCaseTitle, bookmarkUrl, tags, weights) ==
    LET tagHit == \E t \in 1..Len(tags) : Includes(tags[t], word)
        titleHit == TitleIncludes(lowerCaseTitle, word)
        titleWords == Split(lowerCaseTitle, " ")
        startHit == \E t \in 1..Len(titleWords) : StartsWith(titleWords[t], word)
        urlHit == Includes(bookmarkUrl, word)
    IN [add |-> Plus(IF tagHit THEN weights.tagMatch ELSE 0,
                     IF titleHit
                     THEN Plus(weights.titleMatch,
                               IF startHit THEN weights.startsWithBonus ELSE 0)
                     ELSE IF urlHit THEN weights.urlMatch ELSE 0),
        wordMatched |-> tagHit \/ titleHit \/ urlHit]

RECURSIVE SumAdds(_, _)
SumAdds(hits, n) == IF n = 0 THEN 0 ELSE Plus(hits[n].add, SumAdds(hits, n - 1))

\* 20 - distance * 5 when the joined terms are close to the title prefix
FallbackBonus(queryWords, lowerCaseTitle) ==
    LET joined == Join(queryWords, " ")
        distance == levenshteinDistance(joined, Prefix(lowerCaseTitle, Len(joined)))
    IN IF distance <= Len(joined) \div 4
       THEN 20 * Scale - distance * 5 * Scale
       ELSE 0

\* the length of the scheme and the slashes a url starts with, 0 for a
\* string that new URL rejects
SchemeLen(url) ==
    IF StartsWith(url, <<"h", "t", "t", "p", ":", "/", "/">>) THEN 7
    ELSE IF StartsWith(url, <<"h", "t", "t", "p", "s", ":", "/", "/">>) THEN 8
    ELSE IF StartsWith(url, <<"f", "t", "p", ":", "/", "/">>) THEN 6
    ELSE IF StartsWith(url, <<"c", "h", "r", "o", "m", "e", ":", "/", "/">>) THEN 9
    ELSE 0

\* new URL(url).hostname; ok = FALSE when the constructor throws
UrlParse(url) ==
    LET scheme == SchemeLen(url)
        rest == SubSeq(url, scheme + 1, Len(url))
        host == Split(rest, "/")[1]
    IN IF scheme > 0 /\ Len(host) > 0
       THEN [ok |-> TRUE, hostname |-> toLowerCase(host)]
       ELSE [ok |-> FALSE, hostname |-> <<>>]

\* domainScores[domain], 0 for undefined
DomainCount(domTable, domain) ==
    IF domain \in DOMAIN domTable THEN domTable[domain] ELSE 0

\* mutant: the multiplier lacks its `1 +`
DomainBoost_NoUnit(score, url, domTable) ==
    LET parsed == UrlParse(url)
        count == DomainCount(domTable, parsed.hostname)
    IN IF parsed.ok /\ count /= 0
       THEN Times(score, Log1p(count) \div 10)
       ELSE score

\* mutant: a url that cannot be parsed costs the candidate its score
DomainBoost_BadUrlZero(score, url, domTable) ==
    LET parsed == UrlParse(url)
        count == DomainCount(domTable, parsed.hostname)
    IN IF ~parsed.ok THEN 0
       ELSE IF count /= 0
       THEN Times(score, Scale + Log1p(count) \div 10)
       ELSE score

\* score *= (1 + Math.log1p(domainScores[domain]) * 0.1), inside try/catch
DomainBoost(score, url, domTable) ==
    LET parsed == UrlParse(url)
        count == DomainCount(domTable, parsed.hostname)
    IN IF parsed.ok /\ count /= 0
       THEN Times(score, Scale + Log1p(count) \div 10)
       ELSE score

\* matchedWords.size === queryWords.length && queryWords.length > 1
AllWordsMatched(hits, matchedWords, queryWords) ==
    /\ Cardinality(matchedWords) = Len(queryWords)
    /\ Len(queryWords) > 1

\* mutant: a tag-only search gets no score of its own
LexicalScore_NoTagOnly(isTagOnlySearch, wordSum, fuzzy, weights) ==
    Plus(wordSum, fuzzy)

\* the score before the test `score > 0`: the sum over the words and the
\* fallback, replaced by weights.tagMatch in a tag-only search (152-154)
LexicalScore(isTagOnlySearch, wordSum, fuzzy, weights) ==
    IF isTagOnlySearch THEN weights.tagMatch ELSE Plus(wordSum, fuzzy)

\* one iteration of `for (const bookmark of workingBookmarks)`: keep tells
\* whether an entry is pushed; lexical is the score before the multipliers
Pass1Entry(bookmark, queryWords, tagFilters, weights, domTable, tagTable) ==
    LET lowerCaseTitle == toLowerCase(bookmark.title)
        bookmarkUrl == toLowerCase(bookmark.url)
        tags == TagsOf(tagTable, bookmark.url)
        isTagOnlySearch == Len(queryWords) = 0 /\ Len(tagFilters) > 0
        hits == [n \in 1..Len(queryWords) |->
                    WordScore(queryWords[n], lowerCaseTitle, bookmarkUrl, tags, weights)]
        matchedWords == {queryWords[n] : n \in {m \in 1..Len(queryWords) : hits[m].wordMatched}}
        wordSum == SumAdds(hits, Len(queryWords))
        fuzzy == IF Len(queryWords) > 0 /\ Cardinality(matchedWords) < Len(queryWords)
                 THEN FallbackBonus(queryWords, lowerCaseTitle)
                 ELSE 0
        lexical == LexicalScore(isTagOnlySearch, wordSum, fuzzy, weights)
        bonus == AllWordsMatched(hits, matchedWords, queryWords)
        afterBonus == IF bonus THEN Times(lexical, weights.allWordsBonus)
                      ELSE lexical
    IN [keep |-> IsNumber(lexical) /\ lexical > 0,
        entry |-> [item |-> bookmark,
                   score |-> DomainBoost(afterBonus, bookmark.url, domTable),
                   lexical |-> lexical,
                   matched |-> matchedWords,
                   bonus |-> bonus,
                   base |-> afterBonus,
                   source |-> "none"]]

----------------------------------------------------------------------------
(* customSearch, Pass 2 (src/search.js 171-206) *)

\* Array.prototype.sort((a, b) => b.score - a.score): stable, descending
RECURSIVE InsertByScore(_, _)
InsertByScore(sorted, e) ==
    IF Len(sorted) = 0 THEN <<e>>
    ELSE IF sorted[Len(sorted)].score >= e.score THEN Append(sorted, e)
    ELSE Append(InsertByScore(SubSeq(sorted, 1, Len(sorted) - 1), e),
                sorted[Len(sorted)])

RECURSIVE SortByScore(_)
SortByScore(results) ==
    IF Len(results) = 0 THEN <<>>
    ELSE InsertByScore(SortByScore(SubSeq(results, 1, Len(results) - 1)),
                       results[Len(results)])

\* mutant: Pass 2 takes the whole list
TopSlice_NoCap(results) == results

\* preliminaryResults.slice(0, 25)
TopSlice(results) == SubSeq(results, 1, Min2(TopK, Len(results)))

\* mutant: no cache entry is ever used
CacheValid_Never(cache, url, t) == FALSE

\* mutant: an entry exactly 24 hours old is still reused
CacheValid_Inclusive(cache, url, t) ==
    /\ url \in DOMAIN cache
    /\ t - cache[url].timestamp <= CACHE_TTL

\* cached && (Date.now() - cached.timestamp < CACHE_TTL)
CacheValid(cache, url, t) ==
    /\ url \in DOMAIN cache
    /\ t - cache[url].timestamp < CACHE_TTL

\* Math.log(visitCount + 1) * weights.visitCount
VisitBonus(visitCount, weights) == (Log1p(visitCount) * weights.visitCount) \div Scale

\* Math.max(0, weights.recency - daysAgo)
RecencyBonus(lastVisit, t, weights) ==
    Max2(0, weights.recency - ((t - lastVisit) * Scale) \div DayHours)

\* mutant: the cache branch adds no recency bonus
EnrichFromCache_NoRecency(entry, cached, t, weights) ==
    [entry EXCEPT
        !.score = @ + VisitBonus(cached.visitCount, weights),
        !.source = "cache"]

\* the cache branch of the loop over topResults (lines 181-188)
EnrichFromCache(entry, cached, t, weights) ==
    [entry EXCEPT
        !.score = @ + VisitBonus(cached.visitCount, weights)
                    + (IF cached.lastVisit /= 0
                       THEN RecencyBonus(cached.lastVisit, t, weights)
                       ELSE 0),
        !.source = "cache"]

\* the callback of chrome.history.getVisits (lines 191-200), on the entry
EnrichFromVisits(entry, visitItems, t, weights) ==
    IF Len(visitItems) > 0
    THEN [entry EXCEPT
             !.score = @ + VisitBonus(Len(visitItems), weights)
                         + RecencyBonus(visitItems[1], t, weights)]
    ELSE entry

\* mutant: lastVisit is the time of the oldest visit record
CacheAfterLookup_OldestVisit(cache, url, visitItems, t) ==
    IF Len(visitItems) > 0
    THEN (url :> [visitCount |-> Len(visitItems),
                  lastVisit |-> visitItems[Len(visitItems)],
                  timestamp |-> t]) @@ cache
    ELSE cache

\* mutant: a lookup without visit records empties the cache
CacheAfterLookup_ClearOnMiss(cache, url, visitItems, t) ==
    IF Len(visitItems) > 0
    THEN (url :> [visitCount |-> Len(visitItems),
                  lastVisit |-> visitItems[1],
                  timestamp |-> t]) @@ cache
    ELSE [u \in {} |-> <<>>]

\* mutant: the result of a lookup is cached also when it holds no visit
CacheAfterLookup_Always(cache, url, visitItems, t) ==
    (url :> [visitCount |-> Len(visitItems),
             lastVisit |-> IF Len(visitItems) > 0 THEN visitItems[1] ELSE 0,
             timestamp |-> t]) @@ cache

\* visitCountCache after the callback of chrome.history.getVisits: the
\* entry is written inside `if (visitCount > 0)` (lines 193, 199)
CacheAfterLookup(cache, url, visitItems, t) ==
    IF Len(visitItems) > 0
    THEN (url :> [visitCount |-> Len(visitItems),
                  lastVisit |-> visitItems[1],
                  timestamp |-> t]) @@ cache
    ELSE cache

\* chrome.history.getVisits({url}): the host's visit records, newest first
VisitsOf(visitTable, url) ==
    IF url \in DOMAIN visitTable THEN visitTable[url] ELSE <<>>

\* mutant: the search goes on while one lookup is still unanswered
AllLookupsResolved_AllButOne(pending) == Cardinality(pending) <= 1

\* mutant: the search goes on as soon as one lookup has resolved
AllLookupsResolved_Race(pending) == TRUE

\* await Promise.all(historyPromises): every promise of the batch resolved
AllLookupsResolved(pending) == pending = {}

----------------------------------------------------------------------------
(* customSearch, Pass 3 (src/search.js 208-220): deduplication *)

IndexOfUrl(results, url) ==
    IF \E j \in 1..Len(results) : results[j].item.url = url
    THEN CHOOSE j \in 1..Len(results) : results[j].item.url = url
    ELSE 0

\* mutant: a later entry of the same url always replaces the earlier one
RECURSIVE Dedupe_KeepLast(_, _, _)
Dedupe_KeepLast(top, n, unique) ==
    IF n > Len(top) THEN unique
    ELSE LET j == IndexOfUrl(unique, top[n].item.url)
         IN Dedupe_KeepLast(top, n + 1,
                IF j = 0 THEN Append(unique, top[n])
                ELSE [unique EXCEPT ![j] = top[n]])

\* the loop filling uniqueResults (a Map keeps the place of a key's first
\* insertion), from entry n on
RECURSIVE Dedupe(_, _, _)
Dedupe(top, n, unique) ==
    IF n > Len(top) THEN unique
    ELSE LET j == IndexOfUrl(unique, top[n].item.url)
         IN Dedupe(top, n + 1,
                IF j = 0 THEN Append(unique, top[n])
                ELSE IF top[n].score > unique[j].score
                     THEN [unique EXCEPT ![j] = top[n]]
                     ELSE unique)

\* mutant: the deduplicated list is returned in Pass-1 order
FinalResults_NoResort(top) == Dedupe(top, 1, <<>>)

\* deduplicatedResults, sorted: the value customSearch returns
FinalResults(top) == SortByScore(Dedupe(top, 1, <<>>))

----------------------------------------------------------------------------
(* Edit distance by its definition: the length of a shortest chain of      *)
(* single-character insertions, deletions and substitutions.               *)

CharsOf(s) == {s[i] : i \in 1..Len(s)}

RemoveAt(s, i) == SubSeq(s, 1, i - 1) \o SubSeq(s, i + 1, Len(s))
InsertAt(s, i, c) == SubSeq(s, 1, i) \o <<c>> \o SubSeq(s, i + 1, Len(s))

\* the strings one edit away from s, over alphabet A, no longer than maxLen
EditNeighbours(s, A, maxLen) ==
    {RemoveAt(s, i) : i \in 1..Len(s)}
    \cup {[s EXCEPT ![i] = c] : i \in 1..Len(s), c \in A}
    \cup (IF Len(s) < maxLen
          THEN {InsertAt(s, i, c) : i \in 0..Len(s), c \in A}
          ELSE {})

RECURSIVE EditsFrom(_, _, _, _, _)
EditsFrom(S, t, A, maxLen, k) ==
    IF t \in S THEN k
    ELSE EditsFrom(S \cup UNION {EditNeighbours(s, A, maxLen) : s \in S},
                   t, A, maxLen, k + 1)

MinEdits(a, b) ==
    EditsFrom({a}, b, CharsOf(a) \cup CharsOf(b),
              IF Len(a) >= Len(b) THEN Len(a) ELSE Len(b), 0)

RECURSIVE EditDistance(_, _)
\* the same distance by the textbook recursion, letter case ignored
EditDistance(a, b) ==
    IF Len(a) = 0 THEN Len(b)
    ELSE IF Len(b) = 0 THEN Len(a)
    ELSE IF LowerChar(a[1]) = LowerChar(b[1]) THEN EditDistance(Tail(a), Tail(b))
    ELSE 1 + Min2(EditDistance(Tail(a), Tail(b)),
                  Min2(EditDistance(Tail(a), b), EditDistance(a, Tail(b))))

----------------------------------------------------------------------------
(* The data of the model: bookmarks, tags, queries *)

u_git  == <<"h", "t", "t", "p", ":", "/", "/", "g", "i", "t", ".", "i", "o">>
u_docs == <<"h", "t", "t", "p", ":", "/", "/", "d", "o", "c", "s", ".", "i", "o", "/", "x">>
u_hub  == <<"h", "t", "t", "p", ":", "/", "/", "h", "u", "b", ".", "i", "o">>

\* bookmarks as flattenBookmarks builds them: title, url, folder path
BGit  == [title |-> <<"G", "i", "t", " ", "H", "u", "b">>,  url |-> u_git,  path |-> <<"B", "a", "r">>]
BDocs == [title |-> <<"D", "o", "c", "s">>,     url |-> u_docs, path |-> <<"B", "a", "r", " ", "/", " ", "W", "o", "r", "k">>]
BDup  == [title |-> <<"H", "u", "b", " ", "d", "o", "c", "s">>, url |-> u_git,  path |-> <<"B", "a", "r", " ", "/", " ", "W", "o", "r", "k">>]
BHub  == [title |-> <<"H", "u", "b">>,      url |-> u_hub,  path |-> <<"B", "a", "r">>]

\* a table with the given entries (url :> tags)
EmptyTable == [u \in {} |-> <<>>]

----------------------------------------------------------------------------
(* The parts of the state a specification does not use stay at rest *)

NoResult == 0 - 1

NoSearch ==
    [pc |-> "idle", mode |-> "bookmarks", input |-> <<>>, query |-> <<>>, weights |-> DefaultWeights,
     working |-> <<>>, i |-> 0, prelim |-> <<>>, top |-> <<>>, k |-> 0,
     pending |-> {}, lookups |-> {}, result |-> <<>>]

NothingDisplayed == [seq |-> 0, input |-> <<>>, urls |-> <<>>]

NoWeights == [stored |-> FALSE, weights |-> DefaultWeights]

\* trackDomainSelection has not been called
NoSelection == [called |-> FALSE, count |-> 0, url |-> <<>>, before |-> EmptyTable]

PopupIdle ==
    /\ allBookmarks = <<>>
    /\ bookmarkTags = EmptyTable
    /\ domainScores = EmptyTable
    /\ visitCountCache = EmptyTable
    /\ storedWeights = NoWeights
    /\ hostVisits = EmptyTable
    /\ now = 0
    /\ searchInput = <<>>
    /\ debounceTimer = FALSE
    /\ startupPending = FALSE
    /\ inv = [s \in 1..MaxSearchRuns |-> NoSearch]
    /\ issued = 0
    /\ running = 0
    /\ displayed = NothingDisplayed
    /\ searchMode = "bookmarks"
    /\ selection = NoSelection

NotRun == [done |-> FALSE, kept |-> <<>>]

TagIdle ==
    /\ tfQuery = <<>>
    /\ tfToken = <<>>
    /\ tfTags = EmptyTable
    /\ tfBase = NotRun
    /\ tfExt = NotRun

LevIdle ==
    /\ levS1 = <<>>
    /\ levS2 = <<>>
    /\ levOut = NoResult

\* the stored tables are the ones the popup loaded (part_000 371-373), and
\* the options page imports nothing
NoFile == [keys |-> {}]

StoreIdle ==
    /\ storedDomainScores = domainScores
    /\ storedBookmarkTags = bookmarkTags
    /\ importFile = NoFile
    /\ selectedSinceReset = domainScores

NoBurst == [typed |-> 0, last |-> 0]

TimeIdle ==
    /\ timers = <<>>
    /\ sinceInput = 0
    /\ burst = NoBurst

BgIdle ==
    /\ bookmarkTree = EmptyTable
    /\ cachedBookmarks = <<>>
    /\ handlers = <<>>
    /\ handled = 0

\* no import is in progress; no status message is shown
NoJob == [pc |-> "none", file |-> [defect |-> "no file"]]
NoStatus == [message |-> "", isError |-> FALSE]

WinIdle ==
    /\ popupWindowId = 0
    /\ openWindows = {}
    /\ winCalls = {}
    /\ commands = 0

NavIdle ==
    /\ openedTabs = {}
    /\ popupOpen = TRUE

OptIdle ==
    /\ importJob = NoJob
    /\ optionsStatus = NoStatus

MoreIdle ==
    /\ WinIdle
    /\ NavIdle
    /\ OptIdle

AuxIdle ==
    /\ MoreIdle
    /\ StoreIdle
    /\ TimeIdle
    /\ BgIdle

----------------------------------------------------------------------------
(* Specification SpecLev: levenshteinDistance applied to every pair of     *)
(* strings over LevAlphabet of length at most MaxLevLen.                   *)

LevAlphabet == {"a", "b", "A"}
LevStrings == UNION {[1..n -> LevAlphabet] : n \in 0..MaxLevLen}
InitLev ==
    /\ levS1 \in LevStrings
    /\ levS2 \in LevStrings
    /\ levOut = NoResult
    /\ TagIdle
    /\ PopupIdle
    /\ AuxIdle

CallLevenshtein ==
    /\ levOut = NoResult
    /\ levOut' = levenshteinDistance(levS1, levS2)
    /\ UNCHANGED <<levS1, levS2, tagVars, popupVars, auxVars>>

NextLev == CallLevenshtein

SpecLev == InitLev /\ [][NextLev]_vars

----------------------------------------------------------------------------
(* Specification SpecTag: the tag filter of customSearch applied to a      *)
(* query and to the same query with one more #tag token.                   *)

TagBookmarks == <<BGit, BDocs, BHub>>

TagTables ==
    { EmptyTable,
      (u_git :> <<<<"w", "o", "r", "k">>, <<"u", "r", "g", "e", "n", "t">>>>) @@ (u_docs :> <<<<"p", "i", "n">>>>),
      (u_git :> <<<<"W", "o", "r", "k">>>>) @@ (u_docs :> <<<<"w", "o", "r", "k", "s">>>>),
      (u_git :> <<<<"p", "i", "n">>, <<"w", "o", "r", "k">>>>) @@ (u_docs :> <<<<"u", "r", "g", "e", "n", "t">>>>)
          @@ (u_hub :> <<<<"w", "o", "r", "k", "s">>>>) }

TagQueries ==
    { <<>>, <<"g", "i", "t">>, <<"#", "w", "o", "r", "k">>, <<"#", "w", "r", "k">>, <<"#", "u", "r", "g", "t">>, <<"#", "p", "i", "n", " ", "g", "i", "t">>, <<"#", "W", "o", "r", "k", " ", "#", "p", "i", "n">> }

TagTokens == { <<"#", "p", "i", "n">>, <<"#", "u", "r", "g", "t">>, <<"#", "w", "o", "r", "k">>, <<"#">>, <<"#", "z", "z">> }

InitTag ==
    /\ tfQuery \in TagQueries
    /\ tfToken \in TagTokens
    /\ tfTags \in TagTables
    /\ tfBase = NotRun
    /\ tfExt = NotRun
    /\ LevIdle
    /\ PopupIdle
    /\ AuxIdle

\* customSearch steps 1-2 on tfQuery
FilterQuery ==
    /\ ~tfBase.done
    /\ tfBase' = [done |-> TRUE,
                  kept |-> workingBookmarksOf(TagBookmarks, tfTags,
                                              tagFiltersOf(tfQuery))]
    /\ UNCHANGED <<tfQuery, tfToken, tfTags, tfExt, levVars, popupVars, auxVars>>

\* customSearch steps 1-2 on tfQuery followed by one more #tag token
FilterExtendedQuery ==
    /\ ~tfExt.done
    /\ tfExt' = [done |-> TRUE,
                 kept |-> workingBookmarksOf(TagBookmarks, tfTags,
                              tagFiltersOf(tfQuery \o <<" ">> \o tfToken))]
    /\ UNCHANGED <<tfQuery, tfToken, tfTags, tfBase, levVars, popupVars, auxVars>>

NextTag == FilterQuery \/ FilterExtendedQuery

SpecTag == InitTag /\ [][NextTag]_vars

\* the survival condition as the specification words it
SurvivesAsSpecified(tags, filters) ==
    \/ Len(filters) = 0
    \/ /\ Len(tags) >= 1
       /\ \A f \in 1..Len(filters) :
              \E t \in 1..Len(tags) :
                  \/ Includes(tags[t], filters[f])
                  \/ EditDistance(tags[t], filters[f])
                         <= (IF Len(tags[t]) > 5 THEN 2 ELSE 1)

\* C7: the survivors of the tag filter are exactly the candidates that own a
\* tag and have, for every filter tag, an owned tag containing it or within
\* the length-scaled edit distance of it; with no filter tag all survive
C7_TagFilterExact ==
    tfBase.done =>
        LET Survives(b) == SurvivesAsSpecified(TagsOf(tfTags, b.url),
                                               tagFiltersOf(tfQuery))
        IN tfBase.kept = SelectSeq(TagBookmarks, Survives)

\* C7 witness: a filter with a typo; the 6-character tag two edits away
\* survives, the bookmarks without a matching tag do not
C7_Witness ==
    /\ tfBase.done
    /\ tfQuery = <<"#", "u", "r", "g", "t">>
    /\ tfTags = (u_git :> <<<<"w", "o", "r", "k">>, <<"u", "r", "g", "e", "n", "t">>>>) @@ (u_docs :> <<<<"p", "i", "n">>>>)
    /\ tfBase.kept = <<BGit>>

ElementsOf(seq) == {seq[i] : i \in 1..Len(seq)}

\* C8: the survivors are among the input candidates, and the survivors of
\* the query with one more #tag token are among the survivors of the query
C8_TagFilterNarrows ==
    /\ tfBase.done => ElementsOf(tfBase.kept) \subseteq ElementsOf(TagBookmarks)
    /\ tfExt.done => ElementsOf(tfExt.kept) \subseteq ElementsOf(TagBookmarks)
    /\ (tfBase.done /\ tfExt.done) =>
           /\ ElementsOf(tfExt.kept) \subseteq ElementsOf(tfBase.kept)
           /\ Len(tfExt.kept) <= Len(tfBase.kept)

\* C8 witness: the added token removes a survivor of the shorter query
C8_Witness ==
    /\ tfBase.done
    /\ tfExt.done
    /\ tfQuery = <<"#", "w", "o", "r", "k">>
    /\ tfToken = <<"#", "p", "i", "n">>
    /\ Len(tfBase.kept) = 2
    /\ Len(tfExt.kept) = 1

\* C9: the result is the minimum number of single-character insertions,
\* deletions and substitutions turning one argument into the other, letter
\* case ignored (empty arguments included)
C9_MinimumEdits ==
    levOut /= NoResult => levOut = MinEdits(toLowerCase(levS1), toLowerCase(levS2))

\* C9 witness: a computed distance between two non-empty strings that differ
\* only by case in one place and by a real edit in another
C9_Witness ==
    /\ levOut = 1
    /\ levS1 = <<"A", "b">>
    /\ levS2 = <<"a", "a", "b">>

\* C10: the distance is symmetric, 0 for equal arguments, and len(s) when
\* the other argument is empty
C10_Algebra ==
    levOut /= NoResult =>
        /\ levOut = levenshteinDistance(levS2, levS1)
        /\ (levS1 = levS2 => levOut = 0)
        /\ (levS1 = <<>> => levOut = Len(levS2))
        /\ (levS2 = <<>> => levOut = Len(levS1))

\* C10 witness: the distance from a non-empty string to the empty string
C10_Witness ==
    /\ levOut = 2
    /\ levS1 = <<"a", "b">>
    /\ levS2 = <<>>

----------------------------------------------------------------------------
(* Specification Spec: the popup.  executeSearch is called at start-up and *)
(* by the debounce timer; each call runs customSearch, which suspends at   *)
(* the settings read and at Promise.all.  Code between two suspensions     *)
(* runs to completion: `running` names the invocation that is inside such  *)
(* a stretch, and no other handler starts meanwhile.                       *)

BookmarkLists == { <<BGit, BDocs, BDup>>, <<BDocs, BGit>> }

SearchTagTables ==
    { EmptyTable,
      (u_git :> << <<"p", "i", "n">> >>) @@ (u_docs :> << <<"w", "o", "r", "k">>, <<"u", "r", "g", "e", "n", "t">> >>) }

DomainTables == { EmptyTable, (<<"g", "i", "t", ".", "i", "o">> :> 5) }

CacheTables ==
    { EmptyTable,
      (u_git :> [visitCount |-> 3, lastVisit |-> 1, timestamp |-> 1]) }

HostTables == { EmptyTable, (u_git :> <<20, 5>>) }

\* weights saved from the options page with allWordsBonus set to 0
ZeroBonusWeights == [DefaultWeights EXCEPT !.allWordsBonus = 0]

StoredWeights == { NoWeights, [stored |-> TRUE, weights |-> ZeroBonusWeights] }

Queries == { <<"g", "i", "t">>, <<"G", "i", "t", " ", "h", "u", "b">>, <<"g", "i", "t", " ", "g", "i", "t">>, <<"h", "u", "b", " ", "#", "p", "i", "n">>, <<"d", "o", "c", "s", " ">> }

\* the instants of the model, in hours
ClockValues == <<24, 25, 49>>

PinQuery == <<"#", "p", "i", "n">>

Init ==
    /\ allBookmarks \in BookmarkLists
    /\ bookmarkTags \in SearchTagTables
    /\ domainScores \in DomainTables
    /\ visitCountCache \in CacheTables
    /\ storedWeights \in StoredWeights
    /\ hostVisits \in HostTables
    /\ now = ClockValues[1]
    /\ searchInput = <<>>
    /\ debounceTimer = FALSE
    /\ startupPending = TRUE
    /\ inv = [s \in 1..MaxSearchRuns |-> NoSearch]
    /\ issued = 0
    /\ running = 0
    /\ displayed = NothingDisplayed
    /\ searchMode = "bookmarks"
    /\ selection = NoSelection
    /\ LevIdle
    /\ TagIdle
    /\ AuxIdle

envVars == <<allBookmarks, bookmarkTags, domainScores, storedWeights, hostVisits>>

\* the input listener (part_001 247-250): the timer is cleared and re-armed
InputEvent ==
    /\ running = 0
    /\ \E q \in Queries :
           /\ q /= searchInput
           /\ searchInput' = q
    /\ debounceTimer' = TRUE
    /\ UNCHANGED <<envVars, visitCountCache, now, startupPending, inv, issued,
                   running, displayed, levVars, tagVars, auxVars,
                   uiVars>>

\* time passes
Tick ==
    /\ running = 0
    /\ \E n \in 1..(Len(ClockValues) - 1) :
           /\ now = ClockValues[n]
           /\ now' = ClockValues[n + 1]
    /\ UNCHANGED <<envVars, visitCountCache, searchInput, debounceTimer,
                   startupPending, inv, issued, running, displayed, levVars, tagVars, auxVars,
                   uiVars>>

\* executeSearch (part_000 324-328): a query that begins with ':' is a web
\* search, for which the list is cleared and nothing is searched
WebSearchEscape(query) == StartsWith(query, <<":">>)

\* executeSearch (part_000 320-358, part_001 203-237) in the given mode, up
\* to its first suspension: the settings read of customSearch in bookmark
\* mode, the call of chrome.history.search in history mode; for a web
\* search, and in history mode with an empty search box, it clears the list
\* and returns
BeginSearchIn(mode) ==
    LET input == Trim(searchInput)
        query == IF Len(input) > 0 THEN input ELSE PinQuery
    IN /\ issued < MaxSearchRuns
       /\ issued' = issued + 1
       /\ IF WebSearchEscape(input)
          THEN /\ inv' = [inv EXCEPT ![issued + 1] =
                              [NoSearch EXCEPT !.pc = "done", !.mode = mode,
                                               !.input = input]]
               /\ displayed' = [seq |-> issued + 1, input |-> input, urls |-> <<>>]
          ELSE IF mode = "bookmarks"
          THEN /\ inv' = [inv EXCEPT ![issued + 1] =
                              [NoSearch EXCEPT !.pc = "weights", !.input = input,
                                               !.query = query]]
               /\ UNCHANGED displayed
          ELSE IF Len(input) > 0
          THEN /\ inv' = [inv EXCEPT ![issued + 1] =
                              [NoSearch EXCEPT !.pc = "history", !.mode = mode,
                                               !.input = input, !.query = input]]
               /\ UNCHANGED displayed
          ELSE /\ inv' = [inv EXCEPT ![issued + 1] =
                              [NoSearch EXCEPT !.pc = "done", !.mode = mode,
                                               !.input = input]]
               /\ displayed' = [seq |-> issued + 1, input |-> input, urls |-> <<>>]

BeginSearch == BeginSearchIn(searchMode)

\* initialize().then(() => executeSearch())
StartupSearch ==
    /\ running = 0
    /\ startupPending
    /\ startupPending' = FALSE
    /\ BeginSearch
    /\ UNCHANGED <<envVars, visitCountCache, now, searchInput, debounceTimer,
                   running, levVars, tagVars, auxVars,
                   uiVars>>

\* the debounce timer fires: setTimeout(executeSearch, 150)
TimerSearch ==
    /\ running = 0
    /\ debounceTimer
    /\ debounceTimer' = FALSE
    /\ BeginSearch
    /\ UNCHANGED <<envVars, visitCountCache, now, searchInput, startupPending,
                   running, levVars, tagVars, auxVars,
                   uiVars>>

\* chrome.storage.sync.get({weights: defaults})
WeightsRead(item) == IF item.stored THEN item.weights ELSE DefaultWeights

\* the settings read resolves; customSearch parses the query and filters by
\* tag (lines 67-106)
WeightsArrive(s) ==
    /\ running = 0
    /\ inv[s].pc = "weights"
    /\ inv' = [inv EXCEPT ![s] =
                  [@ EXCEPT !.pc = "pass1",
                            !.weights = WeightsRead(storedWeights),
                            !.working = workingBookmarksOf(allBookmarks, bookmarkTags,
                                                           tagFiltersOf(inv[s].query)),
                            !.i = 0]]
    /\ running' = s
    /\ UNCHANGED <<envVars, visitCountCache, now, searchInput, debounceTimer,
                   startupPending, issued, displayed, levVars, tagVars, auxVars,
                   uiVars>>

\* Pass 1, one bookmark (lines 112-169)
Pass1Step(s) ==
    /\ running = s
    /\ inv[s].pc = "pass1"
    /\ inv[s].i < Len(inv[s].working)
    /\ LET r == Pass1Entry(inv[s].working[inv[s].i + 1], queryWordsOf(inv[s].query),
                           tagFiltersOf(inv[s].query), inv[s].weights,
                           domainScores, bookmarkTags)
       IN inv' = [inv EXCEPT ![s] =
                     [@ EXCEPT !.i = @ + 1,
                               !.prelim = IF r.keep THEN Append(@, r.entry) ELSE @]]
    /\ UNCHANGED <<envVars, visitCountCache, now, searchInput, debounceTimer,
                   startupPending, issued, running, displayed, levVars, tagVars, auxVars,
                   uiVars>>

\* preliminaryResults.sort, slice(0, 25) (lines 172-173)
SortAndSlice(s) ==
    /\ running = s
    /\ inv[s].pc = "pass1"
    /\ inv[s].i = Len(inv[s].working)
    /\ inv' = [inv EXCEPT ![s] =
                  [@ EXCEPT !.pc = "enrich",
                            !.prelim = SortByScore(@),
                            !.top = TopSlice(SortByScore(inv[s].prelim)),
                            !.k = 0]]
    /\ UNCHANGED <<envVars, visitCountCache, now, searchInput, debounceTimer,
                   startupPending, issued, running, displayed, levVars, tagVars, auxVars,
                   uiVars>>

\* Pass 2, one entry of topResults (lines 177-204): the cache entry is used,
\* or a history lookup is issued
EnrichStep(s) ==
    /\ running = s
    /\ inv[s].pc = "enrich"
    /\ inv[s].k < Len(inv[s].top)
    /\ LET n == inv[s].k + 1
           url == inv[s].top[n].item.url
       IN IF CacheValid(visitCountCache, url, now)
          THEN inv' = [inv EXCEPT ![s] =
                          [@ EXCEPT !.k = n,
                                    !.top[n] = EnrichFromCache(@, visitCountCache[url],
                                                               now, inv[s].weights)]]
          ELSE inv' = [inv EXCEPT ![s] =
                          [@ EXCEPT !.k = n,
                                    !.top[n].source = "lookup",
                                    !.pending = @ \cup {n},
                                    !.lookups = @ \cup {n}]]
    /\ UNCHANGED <<envVars, visitCountCache, now, searchInput, debounceTimer,
                   startupPending, issued, running, displayed, levVars, tagVars, auxVars,
                   uiVars>>

UrlsOf(results) == [n \in 1..Len(results) |-> results[n].item.url]

\* customSearch returns (lines 208-220) and executeSearch renders the list
\* (part_001 215): the invocation s with its entries `top` and the lookups
\* `pending` it has not heard from
Finished(s, top, pending) ==
    /\ inv' = [inv EXCEPT ![s] =
                  [@ EXCEPT !.pc = "done",
                            !.top = top,
                            !.pending = pending,
                            !.result = FinalResults(top)]]
    /\ displayed' = [seq |-> s, input |-> inv[s].input,
                     urls |-> UrlsOf(FinalResults(top))]

\* await Promise.all(historyPromises) (line 206)
AwaitLookups(s) ==
    /\ running = s
    /\ inv[s].pc = "enrich"
    /\ inv[s].k = Len(inv[s].top)
    /\ running' = 0
    /\ IF AllLookupsResolved(inv[s].pending)
       THEN Finished(s, inv[s].top, inv[s].pending)
       ELSE /\ inv' = [inv EXCEPT ![s].pc = "await"]
            /\ UNCHANGED displayed
    /\ UNCHANGED <<envVars, visitCountCache, now, searchInput, debounceTimer,
                   startupPending, issued, levVars, tagVars, auxVars,
                   uiVars>>

\* the callback of chrome.history.getVisits for entry n (lines 191-200)
LookupResolve(s, n) ==
    /\ running = 0
    /\ inv[s].pc = "await"
    /\ n \in inv[s].pending
    /\ LET url == inv[s].top[n].item.url
           visitItems == VisitsOf(hostVisits, url)
           top == [inv[s].top EXCEPT
                      ![n] = EnrichFromVisits(@, visitItems, now, inv[s].weights)]
           pending == inv[s].pending \ {n}
       IN /\ visitCountCache' = CacheAfterLookup(visitCountCache, url, visitItems, now)
          /\ IF AllLookupsResolved(pending)
             THEN Finished(s, top, pending)
             ELSE /\ inv' = [inv EXCEPT ![s] = [@ EXCEPT !.top = top,
                                                          !.pending = pending]]
                  /\ UNCHANGED displayed
    /\ UNCHANGED <<envVars, now, searchInput, debounceTimer, startupPending,
                   issued, running, levVars, tagVars, auxVars,
                   uiVars>>

\* the steps of the invocations in flight
StepOf(s) ==
    \/ WeightsArrive(s)
    \/ Pass1Step(s)
    \/ SortAndSlice(s)
    \/ EnrichStep(s)
    \/ AwaitLookups(s)
    \/ \E n \in inv[s].pending : LookupResolve(s, n)

SearchStep == \E s \in 1..MaxSearchRuns : StepOf(s)

\* no search is due or in flight, and the model has a search left
Quiet ==
    /\ ~startupPending
    /\ ~debounceTimer
    /\ issued < MaxSearchRuns
    /\ \A s \in 1..MaxSearchRuns : inv[s].pc \in {"idle", "done"}

\* Spec: the user types only between searches, so that the searches of a
\* behaviour follow one another
Next ==
    \/ (Quiet /\ InputEvent)
    \/ Tick
    \/ StartupSearch
    \/ TimerSearch
    \/ SearchStep

Spec == Init /\ [][Next]_vars

\* SpecPopup: the user types at any time, so that searches overlap; one
\* profile in which both the tagged and the typed query have results
InitPopup ==
    /\ Init
    /\ allBookmarks = <<BGit, BDocs, BDup>>
    /\ bookmarkTags /= EmptyTable
    /\ domainScores = EmptyTable
    /\ storedWeights = NoWeights
    /\ visitCountCache = EmptyTable
    /\ hostVisits /= EmptyTable

NextPopup ==
    \/ InputEvent
    \/ Tick
    \/ StartupSearch
    \/ TimerSearch
    \/ SearchStep

SpecPopup == InitPopup /\ [][NextPopup]_vars

----------------------------------------------------------------------------
(* Claims about customSearch and its caller *)

Searches == 1..MaxSearchRuns

\* C1: every entry of a returned list has a final score above 0
C1_PositiveScores ==
    \A s \in Searches :
        inv[s].pc = "done" =>
            \A n \in 1..Len(inv[s].result) : inv[s].result[n].score > 0

\* C2: a returned list holds no url twice, holds every url of the enriched
\* entries, and the entry kept for a url is an enriched entry whose final
\* score no enriched entry of that url exceeds
C2_UniqueBestPerUrl ==
    \A s \in Searches :
        inv[s].pc = "done" =>
            LET res == inv[s].result
                top == inv[s].top
            IN /\ \A a, b \in 1..Len(res) :
                      a /= b => res[a].item.url /= res[b].item.url
               /\ \A n \in 1..Len(top) :
                      \E a \in 1..Len(res) :
                          /\ res[a].item.url = top[n].item.url
                          /\ res[a].score >= top[n].score
               /\ \A a \in 1..Len(res) : \E n \in 1..Len(top) : res[a] = top[n]

\* C2 witness: two enriched entries of one url with different final scores,
\* one of them returned
C2_Witness ==
    \E s \in Searches :
        /\ inv[s].pc = "done"
        /\ \E m, n \in 1..Len(inv[s].top) :
               /\ inv[s].top[m].item.url = inv[s].top[n].item.url
               /\ inv[s].top[m].score > inv[s].top[n].score
               /\ inv[s].top[n].score > 0
        /\ Len(inv[s].result) = 1

\* C3: a lookup has been issued only once Pass 1 has scored every candidate
\* and the top list is built, and a search that has returned has no lookup
\* outstanding
C3_PassesInOrder ==
    \A s \in Searches :
        /\ inv[s].lookups /= {} =>
               /\ inv[s].i = Len(inv[s].working)
               /\ inv[s].pc \in {"enrich", "await", "done"}
               /\ \A n \in inv[s].lookups : n \in 1..Len(inv[s].top)
        /\ inv[s].pc = "done" => inv[s].pending = {}

\* C3 witness: a search that issued two lookups and has returned
C3_Witness ==
    \E s \in Searches :
        /\ inv[s].pc = "done"
        /\ Cardinality(inv[s].lookups) >= 2

\* C4: while Pass 2 runs, an entry already handled took its visit data from
\* the cache exactly when the cache holds an entry for its url less than 24
\* hours old; otherwise a lookup was issued for it
C4_CacheReuse ==
    \A s \in Searches :
        inv[s].pc = "enrich" =>
            \A n \in 1..inv[s].k :
                LET url == inv[s].top[n].item.url
                    fresh == /\ url \in DOMAIN visitCountCache
                             /\ now - visitCountCache[url].timestamp < 24
                IN /\ inv[s].top[n].source = "cache" <=> fresh
                   /\ n \in inv[s].lookups <=> ~fresh

\* C4 witness: an entry whose cache entry is exactly 24 hours old, looked up
\* again
C4_Witness ==
    \E s \in Searches :
        /\ inv[s].pc = "enrich"
        /\ \E n \in inv[s].lookups :
               LET url == inv[s].top[n].item.url
               IN /\ url \in DOMAIN visitCountCache
                  /\ now - visitCountCache[url].timestamp = 24

\* C5: the list on display is only ever replaced by the results of the
\* query issued last
C5_NoStaleOverwrite ==
    [][displayed'.seq /= displayed.seq =>
           inv'[displayed'.seq].input = inv'[issued'].input]_vars

\* whether the term token matches the bookmark by tag, title or URL
TermMatches(word, bookmark) ==
    \/ \E t \in 1..Len(TagsOf(bookmarkTags, bookmark.url)) :
           Includes(TagsOf(bookmarkTags, bookmark.url)[t], word)
    \/ Includes(toLowerCase(bookmark.title), word)
    \/ Includes(toLowerCase(bookmark.url), word)

\* C6: a Pass-1 entry has the all-words multiplier applied when the query
\* has several term tokens and each of them matches the candidate, and
\* never when the query has exactly one term token
C6_AllWordsBonus ==
    \A s \in Searches :
        \A n \in 1..Len(inv[s].prelim) :
            LET terms == queryWordsOf(inv[s].query)
                entry == inv[s].prelim[n]
            IN /\ (/\ Len(terms) > 1
                   /\ \A w \in 1..Len(terms) : TermMatches(terms[w], entry.item))
                  => entry.bonus
               /\ Len(terms) = 1 => ~entry.bonus

----------------------------------------------------------------------------
(* Specification SpecWeights: the popup with a weights item in storage     *)
(* that lacks a key.  The import of src/options.js (lines 221-225) stores  *)
(* data.weights as it is; a key it lacks reads as Undefined.               *)

WeightKeys == {"titleMatch", "startsWithBonus", "tagMatch", "urlMatch",
               "allWordsBonus", "visitCount", "recency"}

\* {titleMatch: 12, startsWithBonus: 15, urlMatch: 3, allWordsBonus: 1.5,
\*  visitCount: 5, recency: 10}: no tagMatch
PartialWeights ==
    [DefaultWeights EXCEPT !.titleMatch = 12 * Scale, !.tagMatch = Undefined]

InitWeights ==
    /\ allBookmarks = <<BGit, BDocs, BDup>>
    /\ bookmarkTags \in SearchTagTables
    /\ domainScores \in DomainTables
    /\ visitCountCache = EmptyTable
    /\ storedWeights \in {NoWeights, [stored |-> TRUE, weights |-> PartialWeights]}
    /\ hostVisits \in HostTables
    /\ now = ClockValues[1]
    /\ searchInput = <<>>
    /\ debounceTimer = FALSE
    /\ startupPending = TRUE
    /\ inv = [s \in 1..MaxSearchRuns |-> NoSearch]
    /\ issued = 0
    /\ running = 0
    /\ displayed = NothingDisplayed
    /\ searchMode = "bookmarks"
    /\ selection = NoSelection
    /\ LevIdle
    /\ TagIdle
    /\ AuxIdle

SpecWeights == InitWeights /\ [][Next]_vars

\* the weights item merged key by key over the defaults
MergedWeights(item) ==
    [k \in WeightKeys |->
        IF item.stored /\ item.weights[k] /= Undefined
        THEN item.weights[k]
        ELSE DefaultWeights[k]]

\* C11: once a search has read the settings, each weight it uses is a
\* number: the stored value of the key, or the default when nothing is
\* stored or the stored item lacks the key
C11_WeightsMerged ==
    \A s \in Searches :
        inv[s].pc \notin {"idle", "weights"} =>
            \A k \in WeightKeys :
                /\ IsNumber(inv[s].weights[k])
                /\ inv[s].weights[k] = MergedWeights(storedWeights)[k]

----------------------------------------------------------------------------
(* Specification SpecScoring: the popup of Spec over a profile with more   *)
(* kinds of bookmarks, tags and queries: a title that holds a term inside  *)
(* a word, a folder path that holds a term, two hosts with equal titles, a *)
(* bookmark whose url has no scheme, tags near 'pin'.                      *)

\* new URL('hub.io/x') throws
BBad == [title |-> <<"H", "u", "b">>, url |-> <<"h", "u", "b", ".", "i", "o", "/", "x">>, path |-> <<"B", "a", "r">>]

ScoringLists == { <<BGit, BDocs, BDup>>, <<BDocs, BHub, BGit, BBad>> }

ScoringTagTables ==
    { EmptyTable,
      (u_git :> << <<"p", "i", "n">> >>) @@ (u_docs :> << <<"w", "o", "r", "k">>, <<"u", "r", "g", "e", "n", "t">> >>),
      (u_hub :> << <<"p", "e", "n">> >>) @@ (u_docs :> << <<"w", "o", "r", "k">> >>) }

ScoringQueries == { <<"h", "u", "b">>, <<"d", "o", "c">>, <<"h", "u", "b", " ", "b", "a", "r">>, <<"d", "o", "c", "s", " ">>, <<"g", "i", "t">> }

InitScoring ==
    /\ allBookmarks \in ScoringLists
    /\ bookmarkTags \in ScoringTagTables
    /\ domainScores \in DomainTables
    /\ visitCountCache \in CacheTables
    /\ storedWeights \in StoredWeights
    /\ hostVisits \in HostTables
    /\ now = ClockValues[1]
    /\ searchInput = <<>>
    /\ debounceTimer = FALSE
    /\ startupPending = TRUE
    /\ inv = [s \in 1..MaxSearchRuns |-> NoSearch]
    /\ issued = 0
    /\ running = 0
    /\ displayed = NothingDisplayed
    /\ searchMode = "bookmarks"
    /\ selection = NoSelection
    /\ LevIdle
    /\ TagIdle
    /\ AuxIdle

\* the input listener (part_001 247-250), between searches
InputScoring ==
    /\ Quiet
    /\ \E q \in ScoringQueries :
           /\ q /= searchInput
           /\ searchInput' = q
    /\ debounceTimer' = TRUE
    /\ UNCHANGED <<envVars, visitCountCache, now, startupPending, inv, issued,
                   running, displayed, levVars, tagVars, auxVars, uiVars>>

NextScoring ==
    \/ InputScoring
    \/ Tick
    \/ StartupSearch
    \/ TimerSearch
    \/ SearchStep

SpecScoring == InitScoring /\ [][NextScoring]_vars

\* the term tokens of the query of search s
WordsOf(s) == queryWordsOf(inv[s].query)

\* whether the term token is in the folder path of the bookmark and in
\* none of its tags, title and url
InPathOnly(word, bookmark) ==
    /\ Includes(toLowerCase(bookmark.path), word)
    /\ ~TermMatches(word, bookmark)

\* C12: in a Pass-1 entry, a term token found only in the folder path of
\* the candidate is one of its matched tokens
C12_PathMatch ==
    \A s \in Searches :
        \A n \in 1..Len(inv[s].prelim) :
            \A w \in 1..Len(WordsOf(s)) :
                InPathOnly(WordsOf(s)[w], inv[s].prelim[n].item)
                    => WordsOf(s)[w] \in inv[s].prelim[n].matched

\* the searches the popup ran for an empty search box
EmptyBoxSearches ==
    {s \in Searches : inv[s].pc = "done" /\ inv[s].input = <<>>}

\* C13: with an empty search box and no bookmark carrying the
\* tag 'pin', the search returns the empty sequence
C13_NoPinNoResults ==
    \A s \in EmptyBoxSearches :
        (\A n \in 1..Len(allBookmarks) :
             <<"p", "i", "n">> \notin ElementsOf(TagsOf(bookmarkTags, allBookmarks[n].url)))
            => inv[s].result = <<>>

\* the searches that have finished Pass 1
Scored == {s \in Searches : inv[s].pc \in {"enrich", "await", "done"}}

\* a tag-only query: at least one #tag token and no term token
TagOnly(s) ==
    /\ Len(tagFiltersOf(inv[s].query)) > 0
    /\ Len(WordsOf(s)) = 0

\* the url has neither visits in the history nor visit data in the cache,
\* and its hostname has no entry in the domain-score table
Unvisited(url) ==
    /\ VisitsOf(hostVisits, url) = <<>>
    /\ url \notin DOMAIN visitCountCache
    /\ ~UrlParse(url).ok \/ UrlParse(url).hostname \notin DOMAIN domainScores

SingleTerm(s) ==
    /\ Len(WordsOf(s)) = 1
    /\ Len(tagFiltersOf(inv[s].query)) = 0

HostCount(url) ==
    IF UrlParse(url).ok /\ UrlParse(url).hostname \in DOMAIN domainScores
    THEN domainScores[UrlParse(url).hostname]
    ELSE 0

\* C16: of two Pass-1 entries with the same positive score before the
\* domain multiplier, the one whose hostname has a positive count scores
\* strictly higher than the one whose hostname has no entry; an entry whose
\* hostname has no entry keeps the score it had before the multiplier
C16_DomainBoost ==
    \A s \in Searches :
        LET prelim == inv[s].prelim
        IN /\ \A m, n \in 1..Len(prelim) :
                  (/\ prelim[m].base = prelim[n].base
                   /\ prelim[m].base > 0
                   /\ HostCount(prelim[m].item.url) > 0
                   /\ HostCount(prelim[n].item.url) = 0)
                      => prelim[m].score > prelim[n].score
           /\ \A n \in 1..Len(prelim) :
                  HostCount(prelim[n].item.url) = 0
                      => prelim[n].score = prelim[n].base

\* C16 witness: 'Git Hub' on a host with count 5 and 'Hub' on a host
\* without entry, equal before the multiplier, the former ahead
C16_Witness ==
    \E s \in Searches :
        /\ inv[s].pc = "enrich"
        /\ Len(inv[s].prelim) >= 2
        /\ inv[s].prelim[1].item = BGit
        /\ \E n \in 2..Len(inv[s].prelim) :
               /\ inv[s].prelim[n].item = BHub
               /\ inv[s].prelim[n].base = inv[s].prelim[1].base
               /\ inv[s].prelim[n].score = inv[s].prelim[n].base
               /\ inv[s].prelim[1].score > inv[s].prelim[n].score
        /\ HostCount(u_git) = 5

----------------------------------------------------------------------------
(* Specification SpecCaps: a profile with more bookmarks than Pass 2 takes *)
(* and more history items than searchHistory asks for.  The user types,    *)
(* and switches between bookmark and history mode.                         *)

MaxResults == 50

Digits == <<"0", "1", "2", "3", "4", "5", "6", "7", "8", "9">>
CapUrl(n) == u_docs \o <<Digits[(n \div 10) + 1], Digits[(n % 10) + 1]>>

\* TopK + 2 bookmarks titled 'Docs', each with its own url
ManyBookmarks ==
    [n \in 1..(TopK + 2) |-> [title |-> <<"D", "o", "c", "s">>, url |-> CapUrl(n), path |-> <<"B", "a", "r">>]]

\* every one of them is pinned
ManyTags == [u \in {CapUrl(n) : n \in 1..(TopK + 2)} |-> << <<"p", "i", "n">> >>]

\* visit data cached an hour ago for all but the first two and the last two
ManyCached ==
    [u \in {CapUrl(n) : n \in 3..TopK} |->
        [visitCount |-> 1, lastVisit |-> 20, timestamp |-> 23]]

\* the browser history, newest first: MaxResults + 2 visited pages, every
\* third without a title
HistoryIndex ==
    [n \in 1..(MaxResults + 2) |->
        [title |-> IF n % 3 = 0 THEN <<>> ELSE <<"D", "o", "c", "s">>,
         url |-> CapUrl(n), lastVisitTime |-> 20]]

\* chrome.history.search({text, maxResults, startTime: 0}): the items whose
\* title or url holds the text, at most maxResults of them
ChromeHistorySearch(text, maxResults) ==
    LET Hit(h) == \/ Includes(toLowerCase(h.title), toLowerCase(text))
                  \/ Includes(toLowerCase(h.url), toLowerCase(text))
        hits == SelectSeq(HistoryIndex, Hit)
    IN SubSeq(hits, 1, Min2(maxResults, Len(hits)))

\* mutant: history items without a title are left out
searchHistory_TitledOnly(query) ==
    LET Titled(h) == Len(h.title) > 0
        historyItems == SelectSeq(ChromeHistorySearch(query, MaxResults), Titled)
    IN [n \in 1..Len(historyItems) |->
           [item |-> [title |-> historyItems[n].title,
                      url |-> historyItems[n].url,
                      lastVisitTime |-> historyItems[n].lastVisitTime]]]

\* searchHistory (src/search.js 37-54)
searchHistory(query) ==
    LET historyItems == ChromeHistorySearch(query, MaxResults)
    IN [n \in 1..Len(historyItems) |->
           [item |-> [title |-> IF Len(historyItems[n].title) > 0
                                THEN historyItems[n].title
                                ELSE historyItems[n].url,
                      url |-> historyItems[n].url,
                      lastVisitTime |-> historyItems[n].lastVisitTime]]]

\* the callback of chrome.history.search resolves searchHistory;
\* executeSearch displays the results
HistoryArrive(s) ==
    /\ running = 0
    /\ inv[s].pc = "history"
    /\ inv' = [inv EXCEPT ![s] =
                  [@ EXCEPT !.pc = "done", !.result = searchHistory(inv[s].query)]]
    /\ displayed' = [seq |-> s, input |-> inv[s].input,
                     urls |-> UrlsOf(searchHistory(inv[s].query))]
    /\ UNCHANGED <<envVars, visitCountCache, now, searchInput, debounceTimer,
                   startupPending, issued, running, levVars, tagVars, auxVars, uiVars>>

\* the click listener of historyToggle (part_001 254-271)
ToggleMode ==
    /\ running = 0
    /\ searchMode' = IF searchMode = "bookmarks" THEN "history" ELSE "bookmarks"
    /\ BeginSearchIn(searchMode')
    /\ UNCHANGED <<envVars, visitCountCache, now, searchInput, debounceTimer,
                   startupPending, running, selection, levVars, tagVars, auxVars>>

\* the input listener (part_001 247-250), typing 'docs'
InputDocs ==
    /\ running = 0
    /\ searchInput /= <<"d", "o", "c", "s">>
    /\ searchInput' = <<"d", "o", "c", "s">>
    /\ debounceTimer' = TRUE
    /\ UNCHANGED <<envVars, visitCountCache, now, startupPending, inv, issued,
                   running, displayed, levVars, tagVars, auxVars, uiVars>>

InitCaps ==
    /\ allBookmarks = ManyBookmarks
    /\ bookmarkTags = ManyTags
    /\ domainScores = EmptyTable
    /\ visitCountCache = ManyCached
    /\ storedWeights = NoWeights
    /\ hostVisits = (CapUrl(1) :> <<20>>)
    /\ now = ClockValues[1]
    /\ searchInput = <<>>
    /\ debounceTimer = FALSE
    /\ startupPending = TRUE
    /\ inv = [s \in 1..MaxSearchRuns |-> NoSearch]
    /\ issued = 0
    /\ running = 0
    /\ displayed = NothingDisplayed
    /\ searchMode = "bookmarks"
    /\ selection = NoSelection
    /\ LevIdle
    /\ TagIdle
    /\ AuxIdle

NextCaps ==
    \/ InputDocs
    \/ ToggleMode
    \/ StartupSearch
    \/ TimerSearch
    \/ SearchStep
    \/ \E s \in 1..MaxSearchRuns : HistoryArrive(s)

SpecCaps == InitCaps /\ [][NextCaps]_vars

\* C17: a finished bookmark-mode search returns at most 25 entries and a
\* finished history-mode search at most 50; the list Pass 2 enriches has
\* at most 25 entries and the returned list is no longer than it
C17_ResultCaps ==
    \A s \in Searches :
        /\ inv[s].mode = "bookmarks" =>
               /\ Len(inv[s].top) <= 25
               /\ Len(inv[s].result) <= Len(inv[s].top)
               /\ Len(inv[s].result) <= 25
        /\ inv[s].mode = "history" => Len(inv[s].result) <= 50

\* C17 witness: the start-up search found more than 25 pinned bookmarks
\* and returned 25, and the history search returned 50
C17_Witness ==
    /\ inv[1].pc = "done" /\ inv[1].mode = "bookmarks"
    /\ Len(inv[1].prelim) > 25
    /\ Len(inv[1].result) = 25
    /\ inv[2].pc = "done" /\ inv[2].mode = "history"
    /\ Len(inv[2].result) = 50

\* C18: in a returned list no entry has a higher final score than an entry
\* placed before it
C18_SortedByFinalScore ==
    \A s \in Searches :
        (inv[s].pc = "done" /\ inv[s].mode = "bookmarks") =>
            \A a, b \in 1..Len(inv[s].result) :
                a < b => inv[s].result[a].score >= inv[s].result[b].score

\* C18 witness: enrichment lifted an entry above one that Pass 1 had ranked
\* before it, and both were returned
C18_Witness ==
    \E s \in Searches :
        /\ inv[s].pc = "done"
        /\ Len(inv[s].result) >= 2
        /\ \E m, n \in 1..Len(inv[s].top) :
               /\ m < n
               /\ inv[s].top[m].score < inv[s].top[n].score
               /\ inv[s].top[m].item.url /= inv[s].top[n].item.url

----------------------------------------------------------------------------
(* Specification SpecSelect: the popup with results that the user opens in *)
(* a background tab (middle click or Ctrl/Cmd click), which records the    *)
(* selection and leaves the popup open.                                    *)

\* mutant: a selection sets the hostname's count to 1
TrackDomainSelection_Restart(domTable, urlString) ==
    LET parsed == UrlParse(urlString)
    IN IF parsed.ok
       THEN (parsed.hostname :> 1) @@ domTable
       ELSE domTable

\* trackDomainSelection (part_001 240): the popup's table after the call; a
\* url that new URL rejects leaves it as it is (catch)
TrackDomainSelection(domTable, urlString) ==
    LET parsed == UrlParse(urlString)
    IN IF parsed.ok
       THEN (parsed.hostname :> DomainCount(domTable, parsed.hostname) + 1) @@ domTable
       ELSE domTable

\* the mousedown listener of a result item (part_001 72-88; the mouseup
\* listener of part_000 417-435), middle click or Ctrl/Cmd click:
\* trackDomainSelection counts the hostname and hands the popup's table to
\* chrome.storage.local.set, and chrome.tabs.create gets the url
MiddleClick ==
    /\ running = 0
    /\ popupOpen
    /\ selection.count < MaxSelections
    /\ \E n \in 1..Len(displayed.urls) :
           LET url == displayed.urls[n]
               parsed == UrlParse(url)
           IN /\ domainScores' = TrackDomainSelection(domainScores, url)
              /\ selection' = [called |-> TRUE, count |-> selection.count + 1,
                               url |-> url, before |-> domainScores]
              /\ IF parsed.ok
                 THEN /\ storedDomainScores' = domainScores'
                      /\ selectedSinceReset' =
                             (parsed.hostname :>
                                 DomainCount(selectedSinceReset, parsed.hostname) + 1)
                                @@ selectedSinceReset
                 ELSE UNCHANGED <<storedDomainScores, selectedSinceReset>>
              /\ openedTabs' = openedTabs \cup {url}
    /\ UNCHANGED <<allBookmarks, bookmarkTags, storedWeights, hostVisits,
                   visitCountCache, now, searchInput, debounceTimer, startupPending,
                   inv, issued, running, displayed, searchMode, levVars, tagVars,
                   storedBookmarkTags, importFile, timeVars, bgVars, winVars,
                   popupOpen, optVars>>

InitSelect ==
    /\ allBookmarks = <<BDocs, BHub, BGit, BBad>>
    /\ bookmarkTags = EmptyTable
    /\ domainScores \in DomainTables
    /\ visitCountCache = EmptyTable
    /\ storedWeights = NoWeights
    /\ hostVisits \in HostTables
    /\ now = ClockValues[1]
    /\ searchInput = <<>>
    /\ debounceTimer = FALSE
    /\ startupPending = TRUE
    /\ inv = [s \in 1..MaxSearchRuns |-> NoSearch]
    /\ issued = 0
    /\ running = 0
    /\ displayed = NothingDisplayed
    /\ searchMode = "bookmarks"
    /\ selection = NoSelection
    /\ LevIdle
    /\ TagIdle
    /\ AuxIdle

NextSelect ==
    \/ InputScoring
    \/ MiddleClick
    \/ StartupSearch
    \/ TimerSearch
    \/ SearchStep

SpecSelect == InitSelect /\ [][NextSelect]_vars

\* whether new URL(url) throws
Unparsable(url) == ~UrlParse(url).ok

\* C19: a candidate whose url cannot be parsed and whose title holds a
\* term of the query has a Pass-1 entry with the score it had before the
\* domain multiplier, the search goes on to score the candidates after it
\* and returns its url; a selection of a url that cannot be parsed leaves
\* the domain-score table as it was
C19_BadUrlHarmless ==
    /\ \A s \in Scored :
           /\ inv[s].i = Len(inv[s].working)
           /\ \A n \in 1..Len(inv[s].working) :
                  (/\ Unparsable(inv[s].working[n].url)
                   /\ \E w \in 1..Len(WordsOf(s)) :
                          Includes(toLowerCase(inv[s].working[n].title), WordsOf(s)[w]))
                      => /\ \E m \in 1..Len(inv[s].prelim) :
                                /\ inv[s].prelim[m].item = inv[s].working[n]
                                /\ inv[s].prelim[m].base > 0
                                /\ inv[s].prelim[m].score = inv[s].prelim[m].base
                         /\ inv[s].pc = "done" =>
                                \E a \in 1..Len(inv[s].result) :
                                    /\ inv[s].result[a].item.url = inv[s].working[n].url
                                    /\ inv[s].result[a].score > 0
    /\ (selection.called /\ Unparsable(selection.url))
           => domainScores = selection.before

\* C19 witness: the search for 'hub' has returned the bookmark whose url has
\* no scheme, and the user has selected it
C19_Witness ==
    /\ \E s \in Searches :
           /\ inv[s].pc = "done"
           /\ \E a \in 1..Len(inv[s].result) : inv[s].result[a].item = BBad
    /\ selection.called
    /\ selection.url = BBad.url
    /\ domainScores = selection.before

\* the cache holds an entry for the url that a lookup of this session
\* wrote (the entries of the initial caches are older than every instant
\* of the model)
WrittenByLookup(url) ==
    /\ url \in DOMAIN visitCountCache
    /\ visitCountCache[url].timestamp >= ClockValues[1]

\* the entries of search s that Pass 2 has handled
Handled(s) ==
    IF inv[s].pc = "enrich" THEN 1..inv[s].k
    ELSE IF inv[s].pc \in {"await", "done"} THEN 1..Len(inv[s].top)
    ELSE {}

\* C20: an entry whose lookup has resolved without visit records has the
\* score Pass 1 gave it, no lookup has written a cache entry for a url
\* without visit records, and when a search has looked up such a url, a
\* later search that handles the url looks it up again
C20_EmptyLookup ==
    /\ \A s \in Searches :
           \A n \in inv[s].lookups \ inv[s].pending :
               VisitsOf(hostVisits, inv[s].top[n].item.url) = <<>>
                   => /\ inv[s].top[n].score = inv[s].prelim[n].score
                      /\ ~WrittenByLookup(inv[s].top[n].item.url)
    /\ \A s1, s2 \in Searches :
           \A n1 \in inv[s1].lookups, n2 \in Handled(s2) :
               (/\ s1 < s2
                /\ inv[s1].top[n1].item.url = inv[s2].top[n2].item.url
                /\ VisitsOf(hostVisits, inv[s1].top[n1].item.url) = <<>>)
                   => n2 \in inv[s2].lookups

\* C20 witness: two finished searches looked up the same url, which has no
\* visit records and no cache entry
C20_Witness ==
    /\ inv[1].pc = "done" /\ inv[2].pc = "done"
    /\ \E n1 \in inv[1].lookups, n2 \in inv[2].lookups :
           /\ inv[1].top[n1].item.url = inv[2].top[n2].item.url
           /\ VisitsOf(hostVisits, inv[1].top[n1].item.url) = <<>>
           /\ inv[1].top[n1].item.url \notin DOMAIN visitCountCache
           /\ inv[2].top[n2].score = inv[2].prelim[n2].score

----------------------------------------------------------------------------
(* The frame of customSearch *)

\* C22: a step of a search invocation leaves the bookmark list with its
\* records, the tag table and the domain-score table as they are; it removes
\* no visit-count cache entry, and a cache entry it inserts or replaces is
\* that of a url whose lookup the invocation was waiting for
C22_SearchFrame ==
    [][inv' /= inv =>
          /\ allBookmarks' = allBookmarks
          /\ bookmarkTags' = bookmarkTags
          /\ domainScores' = domainScores
          /\ DOMAIN visitCountCache \subseteq DOMAIN visitCountCache'
          /\ \A u \in DOMAIN visitCountCache' :
                 (u \notin DOMAIN visitCountCache \/ visitCountCache'[u] /= visitCountCache[u])
                     => \E s \in Searches : \E n \in inv[s].pending :
                            inv[s].top[n].item.url = u]_vars

\* C22 witness: a finished search has looked up two urls, one with and one
\* without visit records, and the cache holds an entry written now
C22_Witness ==
    \E s \in Searches :
        /\ inv[s].pc = "done"
        /\ inv[s].mode = "bookmarks"
        /\ \E n, m \in inv[s].lookups :
               /\ inv[s].top[n].item.url \in DOMAIN visitCountCache
               /\ visitCountCache[inv[s].top[n].item.url].timestamp = now
               /\ VisitsOf(hostVisits, inv[s].top[m].item.url) = <<>>

----------------------------------------------------------------------------
(* History mode *)

\* C23: a step of a history-mode search leaves the visit-count cache, the
\* tag table and the domain-score table as they are, and when it finishes
\* its result has one entry per record that the history index returns for
\* the typed query with the cap of 50, in the order of the index, each
\* entry holding the record's url and last visit time and no score
C23_HistoryMode ==
    [][\A s \in Searches :
          (inv'[s] /= inv[s] /\ inv'[s].mode = "history") =>
              /\ visitCountCache' = visitCountCache
              /\ bookmarkTags' = bookmarkTags
              /\ domainScores' = domainScores
              /\ inv'[s].lookups = {}
              /\ (inv'[s].pc = "done" /\ Len(inv'[s].input) > 0) =>
                     LET records == ChromeHistorySearch(inv'[s].input, 50)
                     IN /\ inv'[s].query = inv'[s].input
                        /\ Len(inv'[s].result) = Len(records)
                        /\ \A n \in 1..Len(records) :
                               /\ DOMAIN inv'[s].result[n] = {"item"}
                               /\ inv'[s].result[n].item.url = records[n].url
                               /\ inv'[s].result[n].item.lastVisitTime
                                      = records[n].lastVisitTime]_vars

\* C23 witness: a history-mode search has returned 50 entries, one of them
\* for a record without a title, while the cache holds entries
C23_Witness ==
    \E s \in Searches :
        /\ inv[s].pc = "done" /\ inv[s].mode = "history"
        /\ Len(inv[s].result) = 50
        /\ \E n \in 1..50 : inv[s].result[n].item.title = inv[s].result[n].item.url
        /\ visitCountCache /= EmptyTable

----------------------------------------------------------------------------
(* The history lookups of one invocation *)

----------------------------------------------------------------------------
(* The cache entry a lookup writes *)

\* C30: when the lookup of an entry's url resolves with at least one visit
\* record, the cache then holds for that url the number of records, the
\* time of the first record and the current time as timestamp; and Pass 2
\* issues a lookup for a url only when the cache holds no entry for it
\* whose timestamp is less than 24 hours back
C30_LookupCached ==
    [][\A s \in Searches :
          /\ \A n \in inv[s].pending \ inv'[s].pending :
                 LET url == inv[s].top[n].item.url
                     records == VisitsOf(hostVisits, url)
                 IN Len(records) >= 1 =>
                        /\ url \in DOMAIN visitCountCache'
                        /\ visitCountCache'[url] = [visitCount |-> Len(records),
                                                    lastVisit |-> records[1],
                                                    timestamp |-> now]
          /\ \A n \in inv'[s].lookups \ inv[s].lookups :
                 LET url == inv[s].top[n].item.url
                 IN url \in DOMAIN visitCountCache =>
                        now >= visitCountCache[url].timestamp + 24]_vars

\* C30 witness: the first search looked up a url with two visit records,
\* and the second search, run an hour later, took that url's data from the
\* entry the lookup had written
C30_Witness ==
    /\ inv[1].pc = "done" /\ inv[2].pc = "done"
    /\ \E n \in inv[1].lookups : \E m \in 1..Len(inv[2].top) :
           LET url == inv[1].top[n].item.url
           IN /\ Len(VisitsOf(hostVisits, url)) = 2
              /\ inv[2].top[m].item.url = url
              /\ inv[2].top[m].source = "cache"
              /\ url \in DOMAIN visitCountCache
              /\ visitCountCache[url].timestamp = 24
              /\ now = 25

----------------------------------------------------------------------------
(* Specification SpecTyping: the popup with the time of its debounce timer. *)
(* The user types at any moment, time passes in steps of TickMs, and a     *)
(* timeout fires at or after its delay.                                    *)

TickMs == 50
MaxBurst == 3
DebounceMs == 150

TypingQueries == { <<"h", "u", "b">>, <<":", "h", "u", "b">> }

\* clearTimeout(debounceTimer): the timeout the handle names, if it is
\* still pending, is the one set last
ClearTimeout_Noop(pendingTimers, armed) == pendingTimers

ClearTimeout(pendingTimers, armed) ==
    IF armed THEN SubSeq(pendingTimers, 1, Len(pendingTimers) - 1) ELSE pendingTimers

\* the input listener (part_001 247-250) at a known time
TypeInput ==
    /\ running = 0
    /\ burst.typed < MaxBurst
    /\ \E q \in TypingQueries :
           /\ q /= searchInput
           /\ searchInput' = q
    /\ timers' = Append(ClearTimeout(timers, debounceTimer), 0)
    /\ debounceTimer' = TRUE
    /\ sinceInput' = 0
    /\ burst' = [burst EXCEPT !.typed = @ + 1]
    /\ UNCHANGED <<envVars, visitCountCache, now, startupPending, inv, issued,
                   running, displayed, uiVars, storeVars, bgVars, moreVars, levVars, tagVars>>

\* TickMs milliseconds pass
Elapse ==
    /\ running = 0
    /\ sinceInput < DebounceMs
    /\ sinceInput' = Min2(sinceInput + TickMs, DebounceMs)
    /\ timers' = [i \in 1..Len(timers) |-> Min2(timers[i] + TickMs, DebounceMs)]
    /\ UNCHANGED <<envVars, visitCountCache, now, searchInput, debounceTimer,
                   startupPending, inv, issued, running, displayed, burst,
                   uiVars, storeVars, bgVars, moreVars, levVars, tagVars>>

\* a timeout set by setTimeout(executeSearch, 150) fires
TimerFire(i) ==
    /\ running = 0
    /\ i \in 1..Len(timers)
    /\ timers[i] >= DebounceMs
    /\ timers' = SubSeq(timers, 1, i - 1) \o SubSeq(timers, i + 1, Len(timers))
    /\ debounceTimer' = (debounceTimer /\ i < Len(timers))
    /\ burst' = [typed |-> 0, last |-> burst.typed]
    /\ BeginSearch
    /\ UNCHANGED <<envVars, visitCountCache, now, searchInput, startupPending,
                   running, sinceInput, uiVars, storeVars, bgVars, moreVars, levVars, tagVars>>

InitTyping ==
    /\ allBookmarks = <<BHub, BGit>>
    /\ bookmarkTags = EmptyTable
    /\ domainScores = EmptyTable
    /\ visitCountCache = EmptyTable
    /\ storedWeights = NoWeights
    /\ hostVisits = (u_git :> <<20, 5>>)
    /\ now = ClockValues[1]
    /\ searchInput = <<>>
    /\ debounceTimer = FALSE
    /\ startupPending = TRUE
    /\ inv = [s \in 1..MaxSearchRuns |-> NoSearch]
    /\ issued = 0
    /\ running = 0
    /\ displayed = NothingDisplayed
    /\ searchMode = "bookmarks"
    /\ selection = NoSelection
    /\ LevIdle
    /\ TagIdle
    /\ AuxIdle

NextTyping ==
    \/ TypeInput
    \/ Elapse
    \/ \E i \in 1..MaxBurst : TimerFire(i)
    \/ ToggleMode
    \/ StartupSearch
    \/ SearchStep
    \/ \E s \in 1..MaxSearchRuns : HistoryArrive(s)

SpecTyping == InitTyping /\ [][NextTyping]_vars

\* C24: an invocation for a query that begins with ':' is over at once with
\* an empty result, without Pass 1, history search or lookup, and the
\* parser finds neither a term token nor a tag filter in such a query
C24_WebSearchEscape ==
    \A s \in Searches :
        (inv[s].pc /= "idle" /\ StartsWith(inv[s].input, <<":">>)) =>
            /\ inv[s].pc = "done"
            /\ inv[s].result = <<>>
            /\ inv[s].prelim = <<>>
            /\ inv[s].lookups = {}
            /\ queryWordsOf(inv[s].input) = <<>>
            /\ tagFiltersOf(inv[s].input) = <<>>

\* C25: a timeout that fires starts one search, 150 ms or more after the
\* last input event, for the text then in the search box, and leaves no
\* timeout pending; a search starts only when a timeout fires, at start-up
\* or when the mode is toggled
C25_Debounce ==
    [][/\ Len(timers') < Len(timers) =>
              /\ sinceInput >= 150
              /\ issued' = issued + 1
              /\ inv'[issued'].input = Trim(searchInput)
              /\ timers' = <<>>
       /\ issued' /= issued =>
              \/ Len(timers') < Len(timers)
              \/ startupPending /\ ~startupPending'
              \/ searchMode' /= searchMode]_vars

\* C25 witness: a timeout has fired after a burst of two or more input
\* events and the search it started is for the text in the search box
C25_Witness ==
    /\ burst.last >= 2
    /\ burst.typed = 0
    /\ timers = <<>>
    /\ issued >= 1
    /\ inv[issued].input = Trim(searchInput)
    /\ searchMode = "bookmarks"

----------------------------------------------------------------------------
(* Specification SpecDomain: the popup of SpecSelect next to the options   *)
(* page, which clears the stored domain table and imports backup files.    *)
(* The pages run in their own contexts and meet in chrome.storage.local.   *)

AllKeys == {"weights", "domainScores", "bookmarkTags"}

\* the files the user picks: a backup, and a file without domainScores
ImportFiles ==
    { [keys |-> AllKeys, weights |-> DefaultWeights,
       domainScores |-> (<<"g", "i", "t", ".", "i", "o">> :> 2), bookmarkTags |-> EmptyTable],
      [keys |-> {"weights"}, weights |-> DefaultWeights,
       domainScores |-> EmptyTable, bookmarkTags |-> EmptyTable] }

\* clearDomainData (src/options.js 170-176), confirmed by the user
ClearDomainData ==
    /\ storedDomainScores' = EmptyTable
    /\ selectedSinceReset' = EmptyTable
    /\ UNCHANGED <<popupVars, storedBookmarkTags, importFile, timeVars, bgVars, moreVars,
                   levVars, tagVars>>

\* handleFileImport (src/options.js 211-229): the file is read and parsed;
\* a file that lacks one of the three items is rejected, the weights of
\* any other are written to chrome.storage.sync
ImportRead ==
    /\ importFile = NoFile
    /\ \E file \in ImportFiles :
           IF file.keys = AllKeys
           THEN /\ storedWeights' = [stored |-> TRUE, weights |-> file.weights]
                /\ importFile' = file
           ELSE UNCHANGED <<storedWeights, importFile>>
    /\ UNCHANGED <<allBookmarks, bookmarkTags, domainScores, visitCountCache,
                   hostVisits, now, searchInput, debounceTimer, startupPending,
                   inv, issued, running, displayed, uiVars, storedDomainScores,
                   storedBookmarkTags, selectedSinceReset, timeVars, bgVars, moreVars,
                   levVars, tagVars>>

\* handleFileImport (src/options.js 230-233): the file's domainScores and
\* bookmarkTags are written to chrome.storage.local
ImportStore ==
    /\ importFile /= NoFile
    /\ storedDomainScores' = importFile.domainScores
    /\ storedBookmarkTags' = importFile.bookmarkTags
    /\ selectedSinceReset' = importFile.domainScores
    /\ importFile' = NoFile
    /\ UNCHANGED <<popupVars, timeVars, bgVars, moreVars, levVars, tagVars>>

InitDomain ==
    /\ allBookmarks = <<BDocs, BHub, BGit, BBad>>
    /\ bookmarkTags = EmptyTable
    /\ domainScores \in DomainTables
    /\ visitCountCache = EmptyTable
    /\ storedWeights = NoWeights
    /\ hostVisits = EmptyTable
    /\ now = ClockValues[1]
    /\ searchInput = <<>>
    /\ debounceTimer = FALSE
    /\ startupPending = TRUE
    /\ inv = [s \in 1..MaxSearchRuns |-> NoSearch]
    /\ issued = 0
    /\ running = 0
    /\ displayed = NothingDisplayed
    /\ searchMode = "bookmarks"
    /\ selection = NoSelection
    /\ LevIdle
    /\ TagIdle
    /\ AuxIdle

NextDomain ==
    \/ InputScoring
    \/ MiddleClick
    \/ StartupSearch
    \/ TimerSearch
    \/ SearchStep
    \/ ClearDomainData
    \/ ImportRead
    \/ ImportStore

SpecDomain == InitDomain /\ [][NextDomain]_vars

\* whether table b is table a with the count of one hostname raised by 1
OneMore(a, b) ==
    \E h \in DOMAIN b : b = (h :> DomainCount(a, h) + 1) @@ a

C26_StoredIsCounted ==
    \A h \in DOMAIN storedDomainScores \cup DOMAIN selectedSinceReset :
        DomainCount(storedDomainScores, h) = DomainCount(selectedSinceReset, h)

----------------------------------------------------------------------------
(* Specification SpecBg: the background page keeps the item cachedBookmarks *)
(* of chrome.storage.local up to date with the bookmark tree               *)
(* (src/background.js 7-144).  The user creates, removes, renames and      *)
(* moves nodes; the browser changes its tree and calls the listener, whose *)
(* awaits (storage read, chrome.bookmarks.get, chrome.bookmarks.getTree)   *)
(* are the steps of the model.  In SpecBg an event is handled to           *)
(* completion before the next one occurs; in SpecBgConc up to MaxInFlight  *)
(* handlers are in flight at a time.                                       *)

MaxEvents == 3
MaxInFlight == 2

RootId == "0"
BarId == "1"
FolderIds == {"2"}
BookmarkIds == {"3", "4"}
NodeOrder == <<"1", "2", "3", "4">>

\* node.url of a folder
NoUrl == <<>>

\* every bookmark of the model has a url of its own
UrlOfId == ("3" :> u_git) @@ ("4" :> u_docs)

FolderTitles == { <<"W">>, <<"D">> }
BookmarkTitles == { <<"A">>, <<"B">> }

IsFolder(node) == node.url = NoUrl

\* path.join(' / ')
RECURSIVE JoinPath(_)
JoinPath(path) ==
    IF Len(path) = 0 THEN <<>>
    ELSE IF Len(path) = 1 THEN path[1]
    ELSE path[1] \o <<" ", "/", " ">> \o JoinPath(Tail(path))

\* node.children, in the order of the tree
ChildrenOf(tree, id) ==
    LET IsChild(c) == c \in DOMAIN tree /\ tree[c].parentId = id
    IN SelectSeq(NodeOrder, IsChild)

\* flattenBookmarks (src/background.js 7-27): traverse(nodes, path)
RECURSIVE Traverse(_, _, _)
Traverse(tree, nodes, path) ==
    IF nodes = <<>> THEN <<>>
    ELSE LET node == tree[Head(nodes)]
             own == IF node.url /= NoUrl
                    THEN << [title |-> node.title, url |-> node.url,
                             path |-> JoinPath(path)] >>
                    ELSE <<>>
             newPath == IF node.title /= <<>> /\ node.parentId /= RootId
                        THEN Append(path, node.title)
                        ELSE path
             below == IF IsFolder(node)
                      THEN Traverse(tree, ChildrenOf(tree, Head(nodes)), newPath)
                      ELSE <<>>
         IN own \o below \o Traverse(tree, Tail(nodes), path)

\* flattenBookmarks applied to the tree of chrome.bookmarks.getTree, whose
\* root has an empty title
flattenBookmarks(tree) == Traverse(tree, ChildrenOf(tree, RootId), <<>>)

\* the bookmarks bar with the folder W and the bookmark A in it
StartTree ==
    ("1" :> [title |-> <<"B", "a", "r">>, url |-> NoUrl, parentId |-> RootId])
    @@ ("2" :> [title |-> <<"W">>, url |-> NoUrl, parentId |-> "1"])
    @@ ("3" :> [title |-> <<"A">>, url |-> u_git, parentId |-> "2"])

\* a listener called with (id, info), at the await named by pc
NewHandler(kind, pc, id, title, url, parentId) ==
    [kind |-> kind, pc |-> pc, id |-> id, title |-> title, url |-> url,
     parentId |-> parentId, cache |-> <<>>, n |-> 0, path |-> <<>>, cur |-> RootId]

RemoveAtIndex(seq, i) == SubSeq(seq, 1, i - 1) \o SubSeq(seq, i + 1, Len(seq))

\* Array.prototype.findIndex / find: the first record that passes, or 0
FirstIndex(cache, Test(_)) ==
    IF \E j \in 1..Len(cache) : Test(cache[j])
    THEN CHOOSE j \in 1..Len(cache) :
             /\ Test(cache[j])
             /\ \A k \in 1..(j - 1) : ~Test(cache[k])
    ELSE 0

CanDispatch(inFlight) ==
    /\ handled < MaxEvents
    /\ Len(handlers) <= inFlight

bgFrame == <<popupVars, storeVars, timeVars, moreVars, levVars, tagVars>>

\* the user adds a bookmark or a folder; onBookmarkCreated (65-66) returns
\* at once for a folder and otherwise reads the stored cache
UserCreates(inFlight) ==
    /\ CanDispatch(inFlight)
    /\ \E id \in (FolderIds \cup BookmarkIds) \ DOMAIN bookmarkTree :
       \E parent \in {f \in DOMAIN bookmarkTree : IsFolder(bookmarkTree[f])} :
       \E title \in (IF id \in FolderIds THEN FolderTitles ELSE BookmarkTitles) :
           LET url == IF id \in FolderIds THEN NoUrl ELSE UrlOfId[id]
           IN /\ bookmarkTree' = (id :> [title |-> title, url |-> url,
                                         parentId |-> parent]) @@ bookmarkTree
              /\ handlers' = IF url = NoUrl THEN handlers
                             ELSE Append(handlers,
                                         NewHandler("created", "read", id, title, url, parent))
    /\ handled' = handled + 1
    /\ UNCHANGED <<cachedBookmarks, bgFrame>>

\* the user deletes a bookmark, or a folder with what it holds;
\* onBookmarkRemoved (84-88) rebuilds the cache for a folder and otherwise
\* reads the stored cache
UserRemoves(inFlight) ==
    /\ CanDispatch(inFlight)
    /\ \E id \in DOMAIN bookmarkTree \ {BarId} :
           LET node == bookmarkTree[id]
               gone == {id} \cup {c \in DOMAIN bookmarkTree : bookmarkTree[c].parentId = id}
           IN /\ bookmarkTree' = [c \in DOMAIN bookmarkTree \ gone |-> bookmarkTree[c]]
              /\ handlers' = Append(handlers,
                                    NewHandler("removed",
                                               IF IsFolder(node) THEN "tree" ELSE "read",
                                               id, node.title, node.url, node.parentId))
    /\ handled' = handled + 1
    /\ UNCHANGED <<cachedBookmarks, bgFrame>>

\* the user renames a bookmark or a folder; onBookmarkChanged (105-106)
\* reads the stored cache
UserRenames(inFlight) ==
    /\ CanDispatch(inFlight)
    /\ \E id \in DOMAIN bookmarkTree \ {BarId} :
       \E title \in (IF id \in FolderIds THEN FolderTitles ELSE BookmarkTitles) :
           /\ title /= bookmarkTree[id].title
           /\ bookmarkTree' = [bookmarkTree EXCEPT ![id].title = title]
           /\ handlers' = Append(handlers,
                                 NewHandler("changed", "read", id, title,
                                            bookmarkTree[id].url, bookmarkTree[id].parentId))
    /\ handled' = handled + 1
    /\ UNCHANGED <<cachedBookmarks, bgFrame>>

\* the user moves a bookmark to another folder; onBookmarkMoved (125-126)
\* reads the stored cache
UserMoves(inFlight) ==
    /\ CanDispatch(inFlight)
    /\ \E id \in DOMAIN bookmarkTree \cap BookmarkIds :
       \E parent \in {f \in DOMAIN bookmarkTree : IsFolder(bookmarkTree[f])} :
           /\ parent /= bookmarkTree[id].parentId
           /\ bookmarkTree' = [bookmarkTree EXCEPT ![id].parentId = parent]
           /\ handlers' = Append(handlers,
                                 NewHandler("moved", "read", id, bookmarkTree[id].title,
                                            bookmarkTree[id].url, parent))
    /\ handled' = handled + 1
    /\ UNCHANGED <<cachedBookmarks, bgFrame>>

\* chrome.storage.local.get({cachedBookmarks: []}) resolves (lines 67, 90,
\* 106, 126); onBookmarkRemoved goes on to take the record out (92-99)
StorageRead(i) ==
    /\ i \in 1..Len(handlers)
    /\ handlers[i].pc = "read"
    /\ LET h == handlers[i]
           Same(bm) == bm.url = h.url /\ bm.title = h.title
           indexToRemove == FirstIndex(cachedBookmarks, Same)
       IN IF h.kind = "removed"
          THEN /\ handlers' = RemoveAtIndex(handlers, i)
               /\ cachedBookmarks' = IF indexToRemove > 0
                                     THEN RemoveAtIndex(cachedBookmarks, indexToRemove)
                                     ELSE cachedBookmarks
          ELSE /\ handlers' = [handlers EXCEPT ![i] =
                                   [h EXCEPT !.cache = cachedBookmarks,
                                             !.pc = IF h.kind = "created" THEN "path" ELSE "node",
                                             !.cur = h.parentId]]
               /\ UNCHANGED cachedBookmarks
    /\ UNCHANGED <<bookmarkTree, handled, bgFrame>>

\* chrome.bookmarks.get(id) resolves in onBookmarkChanged (108-119) and
\* onBookmarkMoved (128-143); without a node the destructuring throws
NodeArrives(i) ==
    /\ i \in 1..Len(handlers)
    /\ handlers[i].pc = "node"
    /\ LET h == handlers[i]
           found == h.id \in DOMAIN bookmarkTree
           nodeUrl == IF found THEN bookmarkTree[h.id].url ELSE NoUrl
           SameUrl(bm) == bm.url = nodeUrl
           n == FirstIndex(h.cache, SameUrl)
       IN IF ~found
          THEN /\ handlers' = RemoveAtIndex(handlers, i)
               /\ UNCHANGED cachedBookmarks
          ELSE IF h.kind = "changed"
          THEN IF nodeUrl = NoUrl
               THEN /\ handlers' = RemoveAtIndex(handlers, i)
                    /\ UNCHANGED cachedBookmarks
               ELSE IF n > 0
               THEN /\ handlers' = RemoveAtIndex(handlers, i)
                    /\ cachedBookmarks' = [h.cache EXCEPT ![n].title = h.title]
               ELSE /\ handlers' = [handlers EXCEPT ![i].pc = "tree"]
                    /\ UNCHANGED cachedBookmarks
          ELSE IF nodeUrl /= NoUrl /\ n > 0
               THEN /\ handlers' = [handlers EXCEPT ![i] =
                                        [h EXCEPT !.pc = "path", !.n = n]]
                    /\ UNCHANGED cachedBookmarks
               ELSE /\ handlers' = [handlers EXCEPT ![i].pc = "tree"]
                    /\ UNCHANGED cachedBookmarks
    /\ UNCHANGED <<bookmarkTree, handled, bgFrame>>

\* getFolderPath (44-60): chrome.bookmarks.get(currentId) resolves; when
\* the loop ends, onBookmarkCreated (69-78) stores the cache with the new
\* record and onBookmarkMoved (137-139) with the new path
FolderArrives(i) ==
    /\ i \in 1..Len(handlers)
    /\ handlers[i].pc = "path"
    /\ LET h == handlers[i]
           found == h.cur \in DOMAIN bookmarkTree
           path == IF found /\ bookmarkTree[h.cur].parentId /= RootId
                   THEN <<bookmarkTree[h.cur].title>> \o h.path
                   ELSE h.path
           currentId == IF found THEN bookmarkTree[h.cur].parentId ELSE RootId
       IN IF currentId /= RootId
          THEN /\ handlers' = [handlers EXCEPT ![i] =
                                   [h EXCEPT !.path = path, !.cur = currentId]]
               /\ UNCHANGED cachedBookmarks
          ELSE /\ handlers' = RemoveAtIndex(handlers, i)
               /\ cachedBookmarks' =
                      IF h.kind = "created"
                      THEN Append(h.cache, [title |-> h.title, url |-> h.url,
                                            path |-> JoinPath(path)])
                      ELSE [h.cache EXCEPT ![h.n].path = JoinPath(path)]
    /\ UNCHANGED <<bookmarkTree, handled, bgFrame>>

\* buildFullBookmarkCache (32-37): chrome.bookmarks.getTree resolves
TreeArrives(i) ==
    /\ i \in 1..Len(handlers)
    /\ handlers[i].pc = "tree"
    /\ handlers' = RemoveAtIndex(handlers, i)
    /\ cachedBookmarks' = flattenBookmarks(bookmarkTree)
    /\ UNCHANGED <<bookmarkTree, handled, bgFrame>>

HandlerStep ==
    \E i \in 1..MaxInFlight :
        \/ StorageRead(i)
        \/ NodeArrives(i)
        \/ FolderArrives(i)
        \/ TreeArrives(i)

\* the cache as buildFullBookmarkCache left it at installation (line 177)
InitBg ==
    /\ bookmarkTree = StartTree
    /\ cachedBookmarks = flattenBookmarks(StartTree)
    /\ handlers = <<>>
    /\ handled = 0
    /\ PopupIdle
    /\ MoreIdle
    /\ StoreIdle
    /\ TimeIdle
    /\ LevIdle
    /\ TagIdle

NextBg ==
    \/ UserCreates(0)
    \/ UserRemoves(0)
    \/ UserRenames(0)
    \/ UserMoves(0)
    \/ HandlerStep

SpecBg == InitBg /\ [][NextBg]_vars

NextBgConc ==
    \/ UserCreates(MaxInFlight - 1)
    \/ UserRemoves(MaxInFlight - 1)
    \/ UserRenames(MaxInFlight - 1)
    \/ UserMoves(MaxInFlight - 1)
    \/ HandlerStep

SpecBgConc == InitBg /\ [][NextBgConc]_vars

\* how many records of the list equal r
CountOf(list, r) == Cardinality({j \in 1..Len(list) : list[j] = r})

SameRecords(a, b) ==
    \A r \in {a[j] : j \in 1..Len(a)} \cup {b[j] : j \in 1..Len(b)} :
        CountOf(a, r) = CountOf(b, r)

\* C27: once every event has been handled, the stored cache holds the
\* records of a full rebuild: one {title, url, path} record per bookmark of
\* the tree, with its current title and folder path
C27_CacheFresh ==
    handlers = <<>> => SameRecords(cachedBookmarks, flattenBookmarks(bookmarkTree))

\* the {title, url} part of the records
TitlesAndUrls(list) == [j \in 1..Len(list) |-> [title |-> list[j].title, url |-> list[j].url]]

\* C28: once the handlers in flight have finished, no creation, removal or
\* renaming of a bookmark is missing from the stored cache: it holds one
\* record with the current title per bookmark of the tree and no other
C28_NoLostUpdate ==
    handlers = <<>> =>
        SameRecords(TitlesAndUrls(cachedBookmarks),
                    TitlesAndUrls(flattenBookmarks(bookmarkTree)))

----------------------------------------------------------------------------
(* Specification SpecEquiv: the popup searches twice at one instant, for   *)
(* texts that may be the same: what the first search looks up, the second  *)
(* finds in the cache.                                                     *)

RetypedQueries == { <<>>, <<"g", "i", "t">> }

\* the input listener (part_001 247-250), between searches: a burst of
\* input events that may end with the text it started from
RetypeInput ==
    /\ Quiet
    /\ \E q \in RetypedQueries : searchInput' = q
    /\ debounceTimer' = TRUE
    /\ UNCHANGED <<envVars, visitCountCache, now, startupPending, inv, issued,
                   running, displayed, levVars, tagVars, auxVars, uiVars>>

InitEquiv ==
    /\ allBookmarks \in BookmarkLists
    /\ bookmarkTags = (u_git :> << <<"p", "i", "n">> >>) @@ (u_docs :> << <<"p", "i", "n">> >>)
    /\ domainScores \in DomainTables
    /\ visitCountCache = EmptyTable
    /\ storedWeights \in StoredWeights
    /\ hostVisits = (u_git :> <<20, 5>>)
    /\ now = ClockValues[1]
    /\ searchInput = <<>>
    /\ debounceTimer = FALSE
    /\ startupPending = TRUE
    /\ inv = [s \in 1..MaxSearchRuns |-> NoSearch]
    /\ issued = 0
    /\ running = 0
    /\ displayed = NothingDisplayed
    /\ searchMode = "bookmarks"
    /\ selection = NoSelection
    /\ LevIdle
    /\ TagIdle
    /\ AuxIdle

NextEquiv ==
    \/ RetypeInput
    \/ StartupSearch
    \/ TimerSearch
    \/ SearchStep

SpecEquiv == InitEquiv /\ [][NextEquiv]_vars

\* the bookmarks and scores of a result list
ScoresOf(results) ==
    [n \in 1..Len(results) |-> [item |-> results[n].item, score |-> results[n].score]]

\* C31: two finished searches for the same text at the same time return
\* the same bookmarks with the same scores in the same order, whether the
\* visit data of an entry came from a lookup or from the cache entry that
\* a lookup has written
C31_CacheAsLookup ==
    \A s1, s2 \in Searches :
        (/\ inv[s1].pc = "done" /\ inv[s2].pc = "done"
         /\ inv[s1].input = inv[s2].input)
            => ScoresOf(inv[s1].result) = ScoresOf(inv[s2].result)

\* C31 witness: the first search looked up a url with visit records, the
\* second search for the same text took them from the cache, and the entry
\* has a score above its Pass-1 score in both
C31_Witness ==
    /\ inv[1].pc = "done" /\ inv[2].pc = "done"
    /\ inv[1].input = inv[2].input
    /\ \E n \in inv[1].lookups : \E m \in 1..Len(inv[2].top) :
           /\ inv[2].top[m].item.url = inv[1].top[n].item.url
           /\ inv[2].top[m].source = "cache"
           /\ inv[1].top[n].score > inv[1].prelim[n].score
           /\ inv[2].top[m].score > inv[2].prelim[m].score
    /\ Len(inv[2].result) >= 2

----------------------------------------------------------------------------
(* Specification SpecLive: the popup of SpecSelect with a host that answers *)
(* every request: the settings read and each lookup resolve in the end,    *)
(* and synchronous code runs on.                                           *)

\* invocation s has a step it can take: ENABLED <<StepOf(s)>>_vars, written
\* out from the guards of the steps
CanStep(s) ==
    \/ /\ running = 0
       /\ \/ inv[s].pc = "weights"
          \/ inv[s].pc = "await" /\ inv[s].pending /= {}
    \/ /\ running = s
       /\ inv[s].pc \in {"pass1", "enrich"}

\* weak fairness of the steps of each invocation
LiveHost ==
    \A s \in 1..MaxSearchRuns :
        []<>(~CanStep(s)) \/ []<><<StepOf(s)>>_vars

SpecLive == InitSelect /\ [][NextSelect]_vars /\ LiveHost

\* C32: no invocation has returned or displayed a list while a lookup of
\* its batch is unanswered, and every invocation that has started returns
\* in the end
C32_ReturnsWhenAnswered ==
    /\ [](\A s \in Searches :
             inv[s].pending /= {} =>
                 /\ inv[s].pc /= "done"
                 /\ inv[s].result = <<>>
                 /\ displayed.seq /= s)
    /\ \A s \in Searches : (inv[s].pc /= "idle") ~> (inv[s].pc = "done")

\* C32 witness: a search has returned a list after its lookups, of which
\* there were two or more, have all been answered
C32_Witness ==
    \E s \in Searches :
        /\ inv[s].pc = "done"
        /\ Cardinality(inv[s].lookups) >= 2
        /\ inv[s].pending = {}
        /\ inv[s].result /= <<>>
        /\ displayed.seq = s

----------------------------------------------------------------------------
(* Lookups and duplicate records *)

\* C33: among the history lookups one invocation has issued, no two are
\* for the same url
C33_OneLookupPerUrl ==
    \A s \in Searches :
        \A n, m \in inv[s].lookups :
            inv[s].top[n].item.url = inv[s].top[m].item.url => n = m

----------------------------------------------------------------------------
(* Specification SpecDup: the profile of SpecCaps with two records of one  *)
(* url among the bookmarks titled 'Docs', and one more bookmark, titled    *)
(* 'My Docs', with a url of its own.                                       *)

DupBookmarks ==
    [n \in 1..(TopK + 1) |->
        [title |-> IF n <= TopK THEN <<"D", "o", "c", "s">> ELSE <<"M", "y", " ", "D", "o", "c", "s">>,
         url |-> IF n = 1 THEN CapUrl(1) ELSE CapUrl(n - 1),
         path |-> <<"B", "a", "r">>]]

InitDup ==
    /\ allBookmarks = DupBookmarks
    /\ bookmarkTags = ManyTags
    /\ domainScores = EmptyTable
    /\ visitCountCache = ManyCached
    /\ storedWeights = NoWeights
    /\ hostVisits = (CapUrl(1) :> <<20>>)
    /\ now = ClockValues[1]
    /\ searchInput = <<>>
    /\ debounceTimer = FALSE
    /\ startupPending = TRUE
    /\ inv = [s \in 1..MaxSearchRuns |-> NoSearch]
    /\ issued = 0
    /\ running = 0
    /\ displayed = NothingDisplayed
    /\ searchMode = "bookmarks"
    /\ selection = NoSelection
    /\ LevIdle
    /\ TagIdle
    /\ AuxIdle

NextDup ==
    \/ InputDocs
    \/ ToggleMode
    \/ StartupSearch
    \/ TimerSearch
    \/ SearchStep
    \/ \E s \in 1..MaxSearchRuns : HistoryArrive(s)

SpecDup == InitDup /\ [][NextDup]_vars

\* the urls of the Pass-1 entries of search s, and the best Pass-1 score
\* of a url
PrelimUrls(s) == {inv[s].prelim[n].item.url : n \in 1..Len(inv[s].prelim)}
BestPass1(s, u) ==
    LET scores == {inv[s].prelim[n].score :
                      n \in {m \in 1..Len(inv[s].prelim) : inv[s].prelim[m].item.url = u}}
    IN CHOOSE x \in scores : \A y \in scores : y <= x

\* C34: a url with fewer than 25 other urls whose best Pass-1 score is as
\* high as its own is in the list a finished bookmark search returns
C34_DuplicatesDisplaceNoUrl ==
    \A s \in Searches :
        (inv[s].pc = "done" /\ inv[s].mode = "bookmarks") =>
            \A u \in PrelimUrls(s) :
                Cardinality({v \in PrelimUrls(s) \ {u} :
                                BestPass1(s, v) >= BestPass1(s, u)}) < TopK
                    => \E a \in 1..Len(inv[s].result) : inv[s].result[a].item.url = u

----------------------------------------------------------------------------
(* Specification SpecFuzzy: a profile with a bookmark whose title repeats  *)
(* a word; the user types queries that match it word by word, and queries *)
(* that only come close to it.                                             *)

u_go == <<"h", "t", "t", "p", ":", "/", "/", "g", "o", ".", "i", "o">>
BGoGo == [title |-> <<"G", "o", " ", "G", "o">>, url |-> u_go, path |-> <<"B", "a", "r">>]

FuzzyQueries == { <<"g", "o", " ", "g", "o">>, <<"g", "o", "g", "o">>, <<"g", "i", "t">> }

\* the input listener (part_001 247-250), between searches
InputFuzzy ==
    /\ Quiet
    /\ \E q \in FuzzyQueries :
           /\ q /= searchInput
           /\ searchInput' = q
    /\ debounceTimer' = TRUE
    /\ UNCHANGED <<envVars, visitCountCache, now, startupPending, inv, issued,
                   running, displayed, levVars, tagVars, auxVars, uiVars>>

InitFuzzy ==
    /\ allBookmarks = <<BGoGo, BGit>>
    /\ bookmarkTags = EmptyTable
    /\ domainScores = EmptyTable
    /\ visitCountCache = EmptyTable
    /\ storedWeights = NoWeights
    /\ hostVisits \in HostTables
    /\ now = ClockValues[1]
    /\ searchInput = <<>>
    /\ debounceTimer = FALSE
    /\ startupPending = TRUE
    /\ inv = [s \in 1..MaxSearchRuns |-> NoSearch]
    /\ issued = 0
    /\ running = 0
    /\ displayed = NothingDisplayed
    /\ searchMode = "bookmarks"
    /\ selection = NoSelection
    /\ LevIdle
    /\ TagIdle
    /\ AuxIdle

NextFuzzy ==
    \/ InputFuzzy
    \/ Tick
    \/ StartupSearch
    \/ TimerSearch
    \/ SearchStep

SpecFuzzy == InitFuzzy /\ [][NextFuzzy]_vars

\* what the words of search s add for bookmark b, one record per term token
HitsOf(s, b) ==
    [n \in 1..Len(WordsOf(s)) |->
        WordScore(WordsOf(s)[n], toLowerCase(b.title), toLowerCase(b.url),
                  TagsOf(bookmarkTags, b.url), inv[s].weights)]

\* C35: the score of a Pass-1 entry before the multipliers, for a query
\* with a term token, is the sum over its term tokens, plus 20 - 5d when
\* some term token did not match and d, the edit distance between the
\* joined term tokens and the title prefix of that length, is at most a
\* quarter of that length, and plus nothing otherwise
C35_FuzzyFallback ==
    \A s \in Scored :
        Len(WordsOf(s)) > 0 =>
            \A n \in 1..Len(inv[s].prelim) :
                LET b == inv[s].prelim[n].item
                    hits == HitsOf(s, b)
                    joined == Join(WordsOf(s), " ")
                    d == levenshteinDistance(joined,
                                             Prefix(toLowerCase(b.title), Len(joined)))
                    someUnmatched == \E w \in 1..Len(hits) : ~hits[w].wordMatched
                IN inv[s].prelim[n].lexical =
                       Plus(SumAdds(hits, Len(hits)),
                            IF someUnmatched /\ d <= Len(joined) \div 4
                            THEN (20 - 5 * d) * Scale
                            ELSE 0)

----------------------------------------------------------------------------
(* Specification SpecParse: the user types, or pastes, queries with upper  *)
(* case, tag tokens, runs of blanks and a tab between two words.           *)

ParseQueries ==
    { <<"g", "i", "t", "\t", "h", "u", "b">>,
      <<"G", "i", "t", " ", "#", "P", "I", "N">>,
      <<"g", "i", "t", " ", " ", "h", "u", "b">>,
      <<"#", "p", "i", "n">> }

\* the input listener (part_001 247-250), between searches
InputParse ==
    /\ Quiet
    /\ \E q \in ParseQueries :
           /\ q /= searchInput
           /\ searchInput' = q
    /\ debounceTimer' = TRUE
    /\ UNCHANGED <<envVars, visitCountCache, now, startupPending, inv, issued,
                   running, displayed, levVars, tagVars, auxVars, uiVars>>

InitParse ==
    /\ allBookmarks = <<BGit, BHub>>
    /\ bookmarkTags = (u_git :> << <<"p", "i", "n">> >>)
    /\ domainScores = EmptyTable
    /\ visitCountCache = EmptyTable
    /\ storedWeights = NoWeights
    /\ hostVisits \in HostTables
    /\ now = ClockValues[1]
    /\ searchInput = <<>>
    /\ debounceTimer = FALSE
    /\ startupPending = TRUE
    /\ inv = [s \in 1..MaxSearchRuns |-> NoSearch]
    /\ issued = 0
    /\ running = 0
    /\ displayed = NothingDisplayed
    /\ searchMode = "bookmarks"
    /\ selection = NoSelection
    /\ LevIdle
    /\ TagIdle
    /\ AuxIdle

NextParse ==
    \/ InputParse
    \/ Tick
    \/ StartupSearch
    \/ TimerSearch
    \/ SearchStep

SpecParse == InitParse /\ [][NextParse]_vars

\* the white space a query can hold
WhiteSpace == {" ", "\t"}

\* the maximal runs of characters of s that are not white space, from
\* position i on, cur being the run so far
RECURSIVE TokensFrom(_, _, _, _)
TokensFrom(s, i, cur, acc) ==
    LET closed == IF Len(cur) > 0 THEN Append(acc, cur) ELSE acc
    IN IF i > Len(s) THEN closed
       ELSE IF s[i] \in WhiteSpace THEN TokensFrom(s, i + 1, <<>>, closed)
       ELSE TokensFrom(s, i + 1, Append(cur, s[i]), acc)

\* C36: the term tokens of a search are the white-space-delimited tokens
\* of the lower-cased query that do not begin with '#', in order; its tag
\* filters are the other tokens without their '#'; and when there is a tag
\* filter and no term token, every Pass-1 entry has the tag-only score
C36_Parser ==
    \A s \in Searches :
        (inv[s].pc /= "idle" /\ inv[s].mode = "bookmarks") =>
            LET tokens == TokensFrom(toLowerCase(inv[s].query), 1, <<>>, <<>>)
                terms == SelectSeq(tokens, IsTermToken)
                tagTokens == SelectSeq(tokens, IsTagToken)
                filters == [i \in 1..Len(tagTokens) |-> Tail(tagTokens[i])]
            IN /\ queryWordsOf(inv[s].query) = terms
               /\ tagFiltersOf(inv[s].query) = filters
               /\ Len(terms) + Len(filters) = Len(tokens)
               /\ (Len(filters) > 0 /\ Len(terms) = 0) =>
                      \A n \in 1..Len(inv[s].prelim) :
                          inv[s].prelim[n].lexical = inv[s].weights.tagMatch

----------------------------------------------------------------------------
(* Specification SpecWin: the popup window of the background page          *)
(* (src/background.js 146-211).  The user presses the shortcut and closes  *)
(* windows; the calls to chrome.system.display and chrome.windows answer   *)
(* later, in any order.                                                    *)

MaxCommands == 3

winFrame == <<popupVars, storeVars, timeVars, bgVars, navVars, optVars, levVars, tagVars>>

\* the call c goes on as op
Moved(c, op) == (winCalls \ {c}) \cup {[c EXCEPT !.op = op]}

\* the onCommand listener (190-204) for open_popup_window: with an id at
\* hand it asks chrome.windows.get for the window, without one it calls
\* createPopupWindow, which awaits chrome.system.display.getInfo (149).
\* The windows that exist at this instant are noted in `saw`.
Command ==
    /\ commands < MaxCommands
    /\ commands' = commands + 1
    /\ winCalls' = winCalls \cup
           {[op |-> IF popupWindowId /= 0 THEN "get" ELSE "display",
             cmd |-> commands + 1,
             id |-> popupWindowId,
             saw |-> openWindows,
             gone |-> FALSE]}
    /\ UNCHANGED <<popupWindowId, openWindows, winFrame>>

\* the callback of chrome.windows.get (193-199): createPopupWindow when the
\* window is gone (chrome.runtime.lastError), else the window popupWindowId
\* names at this instant is focused
GetCallback(c) ==
    /\ c \in winCalls
    /\ c.op = "get"
    /\ IF c.id \notin openWindows
       THEN winCalls' = (winCalls \ {c}) \cup {[c EXCEPT !.op = "display", !.gone = TRUE]}
       ELSE winCalls' = (winCalls \ {c}) \cup {[c EXCEPT !.op = "focused", !.id = popupWindowId]}
    /\ UNCHANGED <<popupWindowId, openWindows, commands, winFrame>>

\* chrome.system.display.getInfo resolves; createPopupWindow calls
\* chrome.windows.create (157-165) and the browser opens the window
DisplayInfoArrives(c) ==
    /\ c \in winCalls
    /\ c.op = "display"
    /\ openWindows' = openWindows \cup {c.cmd}
    /\ winCalls' = (winCalls \ {c}) \cup {[c EXCEPT !.op = "created", !.id = c.cmd]}
    /\ UNCHANGED <<popupWindowId, commands, winFrame>>

\* the callback of chrome.windows.create (165-169)
CreateCallback(c) ==
    /\ c \in winCalls
    /\ c.op = "created"
    /\ popupWindowId' = c.id
    /\ winCalls' = Moved(c, "done")
    /\ UNCHANGED <<openWindows, commands, winFrame>>

\* the user closes a popup window; the chrome.windows.onRemoved listener
\* (184-188)
WindowClosed(w) ==
    /\ w \in openWindows
    /\ openWindows' = openWindows \ {w}
    /\ popupWindowId' = IF w = popupWindowId THEN 0 ELSE popupWindowId
    /\ UNCHANGED <<winCalls, commands, winFrame>>

InitWin ==
    /\ WinIdle
    /\ NavIdle
    /\ OptIdle
    /\ PopupIdle
    /\ StoreIdle
    /\ TimeIdle
    /\ BgIdle
    /\ LevIdle
    /\ TagIdle

NextWin ==
    \/ Command
    \/ \E c \in winCalls : GetCallback(c)
    \/ \E c \in winCalls : DisplayInfoArrives(c)
    \/ \E c \in winCalls : CreateCallback(c)
    \/ \E w \in openWindows : WindowClosed(w)

SpecWin == InitWin /\ [][NextWin]_vars

\* C37: at most one popup window exists, and a command that arrived while
\* a popup window existed creates no window unless that window was gone
\* when chrome.windows.get answered
C37_Singleton ==
    /\ Cardinality(openWindows) <= 1
    /\ \A c \in winCalls :
           (c.saw /= {} /\ c.op \in {"display", "created", "done"}) => c.gone

----------------------------------------------------------------------------
(* Specification SpecNav: the popup of src/unnamed/part_000 with results   *)
(* whose urls are a web page, an ftp url and a string without scheme; the  *)
(* user opens them in the foreground (left click, Enter) or in a           *)
(* background tab (middle click, Ctrl/Cmd click).                          *)

BFtp == [title |-> <<"H", "u", "b">>, url |-> <<"f", "t", "p", ":", "/", "/", "h", "u", "b", ".", "i", "o", "/", "x">>, path |-> <<"B", "a", "r">>]

\* new URL(url).protocol, "" when the constructor throws
UrlProtocol(url) ==
    IF UrlParse(url).ok THEN SubSeq(url, 1, SchemeLen(url) - 2) ELSE <<>>

\* navigateToUrl (part_000 196-206): whether the url passes the checks
Navigable(url) == UrlProtocol(url) \in { <<"h", "t", "t", "p", ":">>, <<"h", "t", "t", "p", "s", ":">>, <<"c", "h", "r", "o", "m", "e", ":">> }

\* left click on a result item (mouseup listener, part_000 436-438) or
\* Enter on the selected item (keydown listener, 504-510): navigateToUrl
\* (196-210) returns for a url it blocks, and otherwise counts the
\* hostname, opens the tab and closes the popup
ActivateItem ==
    /\ running = 0
    /\ popupOpen
    /\ \E n \in 1..Len(displayed.urls) :
           LET url == displayed.urls[n]
               parsed == UrlParse(url)
           IN IF Navigable(url)
              THEN /\ domainScores' = TrackDomainSelection(domainScores, url)
                   /\ selection' = [called |-> TRUE, count |-> selection.count + 1,
                                    url |-> url, before |-> domainScores]
                   /\ IF parsed.ok
                      THEN /\ storedDomainScores' = domainScores'
                           /\ selectedSinceReset' =
                                  (parsed.hostname :>
                                      DomainCount(selectedSinceReset, parsed.hostname) + 1)
                                     @@ selectedSinceReset
                      ELSE UNCHANGED <<storedDomainScores, selectedSinceReset>>
                   /\ openedTabs' = openedTabs \cup {url}
                   /\ popupOpen' = FALSE
              ELSE UNCHANGED <<domainScores, selection, storedDomainScores,
                               selectedSinceReset, openedTabs, popupOpen>>
    /\ UNCHANGED <<allBookmarks, bookmarkTags, storedWeights, hostVisits,
                   visitCountCache, now, searchInput, debounceTimer, startupPending,
                   inv, issued, running, displayed, searchMode, levVars, tagVars,
                   storedBookmarkTags, importFile, timeVars, bgVars, winVars, optVars>>

InitNav ==
    /\ allBookmarks = <<BHub, BFtp, BBad>>
    /\ bookmarkTags = EmptyTable
    /\ domainScores \in DomainTables
    /\ visitCountCache = EmptyTable
    /\ storedWeights = NoWeights
    /\ hostVisits = EmptyTable
    /\ now = ClockValues[1]
    /\ searchInput = <<>>
    /\ debounceTimer = FALSE
    /\ startupPending = TRUE
    /\ inv = [s \in 1..MaxSearchRuns |-> NoSearch]
    /\ issued = 0
    /\ running = 0
    /\ displayed = NothingDisplayed
    /\ searchMode = "bookmarks"
    /\ selection = NoSelection
    /\ LevIdle
    /\ TagIdle
    /\ AuxIdle

\* the page lives until window.close()
NextNav ==
    \/ popupOpen /\ InputScoring
    \/ MiddleClick
    \/ ActivateItem
    \/ popupOpen /\ StartupSearch
    \/ popupOpen /\ TimerSearch
    \/ popupOpen /\ SearchStep

SpecNav == InitNav /\ [][NextNav]_vars

\* C38: every url handed to chrome.tabs.create by an action on a result
\* item is well-formed with protocol http:, https: or chrome:; the last
\* call of trackDomainSelection changed the table only for such a url; and
\* the popup has closed only after opening such a url
C38_OnlyAllowedUrls ==
    /\ \A u \in openedTabs : Navigable(u)
    /\ (selection.called /\ domainScores /= selection.before)
           => Navigable(selection.url)
    /\ ~popupOpen => \E u \in openedTabs : Navigable(u)

----------------------------------------------------------------------------
(* Specification SpecImport: the options page of src/unnamed/part_004; the *)
(* user imports backup files, sound ones and files with one defect each.   *)

\* JSON values: typeof, the members of an object, the value of a number,
\* and for the two tables of a backup the table itself
JUndefined == [type |-> "undefined", fields |-> EmptyTable, num |-> 0, table |-> EmptyTable]
JNull == [type |-> "null", fields |-> EmptyTable, num |-> 0, table |-> EmptyTable]
JString == [type |-> "string", fields |-> EmptyTable, num |-> 0, table |-> EmptyTable]
JNumber(n) == [type |-> "number", fields |-> EmptyTable, num |-> n, table |-> EmptyTable]
JObject(f) == [type |-> "object", fields |-> f, num |-> 0, table |-> EmptyTable]
JTable(tb) == [type |-> "object", fields |-> EmptyTable, num |-> 0, table |-> tb]

\* data[key], undefined for a key the object lacks
Member(data, key) ==
    IF data.type = "object" /\ key \in DOMAIN data.fields
    THEN data.fields[key]
    ELSE JUndefined

\* typeof v === 'object' && v !== null
IsObject(v) == v.type = "object"

\* mutant: the three items only have to be there
validateImportedData_Present(data) ==
    /\ Member(data, "weights").type /= "undefined"
    /\ Member(data, "domainScores").type /= "undefined"
    /\ Member(data, "bookmarkTags").type /= "undefined"

\* validateImportedData (part_004 98-113)
validateImportedData(data) ==
    /\ IsObject(data)
    /\ IsObject(Member(data, "weights"))
    /\ \A key \in WeightKeys : Member(Member(data, "weights"), key).type = "number"
    /\ IsObject(Member(data, "domainScores"))
    /\ IsObject(Member(data, "bookmarkTags"))

\* the weights object of a backup, and a backup with these three items
JWeights(w) == JObject([key \in DOMAIN w |-> JNumber(w[key])])
Backup(weights, domains, tags) ==
    JObject(("weights" :> weights) @@ ("domainScores" :> domains) @@ ("bookmarkTags" :> tags))

SoundWeights == JWeights(ZeroBonusWeights)
SoundDomains == JTable(<<"g", "i", "t", ".", "i", "o">> :> 2)
SoundTags == JTable(u_git :> << <<"p", "i", "n">> >>)

\* the files the user picks: parses tells whether JSON.parse accepts the
\* text, defect names what is wrong with the file
BackupFiles ==
    { [parses |-> TRUE, defect |-> "none",
       data |-> Backup(SoundWeights, SoundDomains, SoundTags)],
      [parses |-> TRUE, defect |-> "none",
       data |-> Backup(JWeights([DefaultWeights EXCEPT !.recency = 0]),
                       JTable(EmptyTable), JTable(EmptyTable))],
      [parses |-> FALSE, defect |-> "unparsable", data |-> JUndefined],
      [parses |-> TRUE, defect |-> "not an object", data |-> JNumber(5)],
      [parses |-> TRUE, defect |-> "not an object", data |-> JNull],
      [parses |-> TRUE, defect |-> "weight key missing",
       data |-> Backup(JObject([key \in WeightKeys \ {"recency"} |->
                                   JNumber(DefaultWeights[key])]),
                       SoundDomains, SoundTags)],
      [parses |-> TRUE, defect |-> "weight not a number",
       data |-> Backup(JObject([key \in WeightKeys |->
                                   IF key = "recency" THEN JString
                                   ELSE JNumber(DefaultWeights[key])]),
                       SoundDomains, SoundTags)],
      [parses |-> TRUE, defect |-> "domainScores missing",
       data |-> JObject(("weights" :> SoundWeights) @@ ("bookmarkTags" :> SoundTags))],
      [parses |-> TRUE, defect |-> "domainScores not an object",
       data |-> Backup(SoundWeights, JString, SoundTags)],
      [parses |-> TRUE, defect |-> "bookmarkTags missing",
       data |-> JObject(("weights" :> SoundWeights) @@ ("domainScores" :> SoundDomains))],
      [parses |-> TRUE, defect |-> "bookmarkTags not an object",
       data |-> Backup(SoundWeights, SoundDomains, JNull)] }

\* data.weights as the weights record of the model
WeightsOf(data) ==
    [key \in WeightKeys |-> Member(Member(data, "weights"), key).num]

importFrame == <<popupVars, importFile, timeVars, bgVars, winVars, navVars, levVars, tagVars>>

\* handleFileImport (part_004 150-158, 183): the user picks a file and
\* reader.readAsText starts
ChooseFile ==
    /\ importJob.pc = "none"
    /\ \E file \in BackupFiles : importJob' = [pc |-> "reading", file |-> file]
    /\ UNCHANGED <<optionsStatus, storedDomainScores, storedBookmarkTags,
                   selectedSinceReset, importFrame>>

\* reader.onload (158-165, 175-178): JSON.parse and validateImportedData; a
\* file that fails either ends in the catch block, which shows the error;
\* for any other file chrome.storage.sync.set gets the weights
FileLoaded ==
    /\ importJob.pc = "reading"
    /\ IF importJob.file.parses /\ validateImportedData(importJob.file.data)
       THEN /\ storedWeights' = [stored |-> TRUE, weights |-> WeightsOf(importJob.file.data)]
            /\ importJob' = [importJob EXCEPT !.pc = "weights"]
            /\ UNCHANGED optionsStatus
       ELSE /\ optionsStatus' = [message |-> IF importJob.file.parses
                                             THEN "Invalid or corrupted backup file."
                                             ELSE "Failed to parse the file.",
                                 isError |-> TRUE]
            /\ importJob' = NoJob
            /\ UNCHANGED storedWeights
    /\ UNCHANGED <<allBookmarks, bookmarkTags, domainScores, visitCountCache,
                   hostVisits, now, searchInput, debounceTimer, startupPending,
                   inv, issued, running, displayed, uiVars, storedDomainScores,
                   storedBookmarkTags, selectedSinceReset, importFile, timeVars,
                   bgVars, winVars, navVars, levVars, tagVars>>

\* chrome.storage.sync.set has resolved (166-170): chrome.storage.local.set
\* gets the two tables of the file
WeightsSaved ==
    /\ importJob.pc = "weights"
    /\ storedDomainScores' = Member(importJob.file.data, "domainScores").table
    /\ storedBookmarkTags' = Member(importJob.file.data, "bookmarkTags").table
    /\ selectedSinceReset' = storedDomainScores'
    /\ importJob' = [importJob EXCEPT !.pc = "tables"]
    /\ UNCHANGED <<optionsStatus, importFrame>>

\* chrome.storage.local.set has resolved (172-174): the form shows the
\* weights and the status reports the import
DataSaved ==
    /\ importJob.pc = "tables"
    /\ optionsStatus' = [message |-> "Data imported successfully!", isError |-> FALSE]
    /\ importJob' = NoJob
    /\ UNCHANGED <<storedDomainScores, storedBookmarkTags, selectedSinceReset,
                   importFrame>>

InitImport ==
    /\ storedWeights = NoWeights
    /\ storedDomainScores \in DomainTables
    /\ storedBookmarkTags \in {EmptyTable, (u_docs :> << <<"w", "o", "r", "k">> >>)}
    /\ selectedSinceReset = storedDomainScores
    /\ importFile = NoFile
    /\ allBookmarks = <<>>
    /\ bookmarkTags = EmptyTable
    /\ domainScores = EmptyTable
    /\ visitCountCache = EmptyTable
    /\ hostVisits = EmptyTable
    /\ now = 0
    /\ searchInput = <<>>
    /\ debounceTimer = FALSE
    /\ startupPending = FALSE
    /\ inv = [s \in 1..MaxSearchRuns |-> NoSearch]
    /\ issued = 0
    /\ running = 0
    /\ displayed = NothingDisplayed
    /\ searchMode = "bookmarks"
    /\ selection = NoSelection
    /\ MoreIdle
    /\ TimeIdle
    /\ BgIdle
    /\ LevIdle
    /\ TagIdle

NextImport ==
    \/ ChooseFile
    \/ FileLoaded
    \/ WeightsSaved
    \/ DataSaved

SpecImport == InitImport /\ [][NextImport]_vars

\* the stored weights, domain scores and bookmark tags
StoredData == <<storedWeights, storedDomainScores, storedBookmarkTags>>

\* C39: the stored weights, domain scores and tags change only in the
\* import of a file without defect, to what the file holds; and the import
\* of a file with a defect ends with an error message on display and the
\* stored data as they were
C39_InvalidImportHarmless ==
    [][/\ StoredData' /= StoredData =>
              /\ importJob.pc \in {"reading", "weights"}
              /\ importJob.file.defect = "none"
              /\ storedWeights' /= storedWeights =>
                     storedWeights' = [stored |-> TRUE,
                                       weights |-> WeightsOf(importJob.file.data)]
              /\ storedDomainScores' /= storedDomainScores =>
                     storedDomainScores' = Member(importJob.file.data, "domainScores").table
              /\ storedBookmarkTags' /= storedBookmarkTags =>
                     storedBookmarkTags' = Member(importJob.file.data, "bookmarkTags").table
       /\ (importJob.pc = "reading" /\ importJob.file.defect /= "none") =>
              /\ importJob'.pc = "none"
              /\ optionsStatus'.isError
              /\ StoredData' = StoredData
       /\ (importJob.pc = "reading" /\ importJob.file.defect = "none") =>
              /\ importJob'.pc = "weights"
              /\ storedWeights'.stored]_vars

\* C39 witness: the import of a file with a defect has ended with an error
\* message, and no import has replaced the stored data
C39_Witness ==
    /\ importJob.pc = "none"
    /\ optionsStatus.isError
    /\ ~storedWeights.stored
    /\ storedDomainScores /= EmptyTable
    /\ storedDomainScores /= SoundDomains.table

====
